---- MODULE Spec2Model ----
(***************************************************************************)
(* Model of the email intake / promotion / completion / reverse-sync       *)
(* service of src/app.py: the audit store (Supabase), the task board and   *)
(* the matter, mapping and activity databases (Notion), the personal task  *)
(* manager (Todoist), and the four webhook handlers, one step per external *)
(* call.                                                                   *)
(*                                                                         *)
(* Conventions.  Python None and the empty string are both falsy wherever  *)
(* the code tests them, and are modelled by None (0) for identifiers and   *)
(* dates and by the empty sequence for text.  Text is a sequence of        *)
(* one-character strings.  A SHA-256 digest is modelled by the string that *)
(* is hashed: the digest is taken to be injective, so two digests are      *)
(* equal exactly when the encoded inputs are equal.  Identifiers issued by *)
(* an external service are the row's position in its table.  The clock     *)
(* `now` counts seconds; a calendar day is SecondsPerDay of them.          *)
(***************************************************************************)
EXTENDS Integers, Sequences, FiniteSets, TLC

\* ------------------------------------------------------------------ bounds
MaxNow == 1
SecondsPerDay == 2
MaxRequests == 4
MaxFaults == 1
MaxTodoistTasks == 1
MaxDue == 6
MaxStart == 4
MaxTitleLen == 3

\* --------------------------------------------------------------- constants
None == 0
BadDate == 0 - 1
ConfidenceThreshold == 80
ForceReviewDays == 3

\* -------------------------------------------------------------------- text
UpperCase == <<"A","B","C","D","E","F","G","H","I","J","K","L","M",
               "N","O","P","Q","R","S","T","U","V","W","X","Y","Z">>
LowerCase == <<"a","b","c","d","e","f","g","h","i","j","k","l","m",
               "n","o","p","q","r","s","t","u","v","w","x","y","z">>
Digits == <<"0","1","2","3","4","5","6","7","8","9">>

Range(s) == {s[i] : i \in 1..Len(s)}

IsSpace(c) == c \in {" ", "\t", "\n"}
IsAlnum(c) == c \in Range(UpperCase) \cup Range(LowerCase) \cup Range(Digits)

LowerChar(c) ==
    IF c \in Range(UpperCase)
    THEN LowerCase[CHOOSE i \in 1..Len(UpperCase) : UpperCase[i] = c]
    ELSE c

\* str.lower()
Lower(s) == [i \in 1..Len(s) |-> LowerChar(s[i])]

RECURSIVE LStrip(_)
LStrip(s) == IF s # <<>> /\ IsSpace(Head(s)) THEN LStrip(Tail(s)) ELSE s

RECURSIVE RStrip(_)
RStrip(s) ==
    IF s # <<>> /\ IsSpace(s[Len(s)]) THEN RStrip(SubSeq(s, 1, Len(s) - 1)) ELSE s

\* str.strip()
Strip(s) == RStrip(LStrip(s))

\* re.sub(r'\s+', ' ', s)
RECURSIVE CollapseSpaces(_)
CollapseSpaces(s) ==
    IF s = <<>> THEN <<>>
    ELSE IF IsSpace(Head(s))
         THEN <<" ">> \o CollapseSpaces(LStrip(s))
         ELSE <<Head(s)>> \o CollapseSpaces(Tail(s))

\* str(int(n)) for n >= 0
RECURSIVE DecStr(_)
DecStr(n) ==
    IF n < 10 THEN <<Digits[n + 1]>>
    ELSE DecStr(n \div 10) \o <<Digits[(n % 10) + 1]>>

\* s contains t as a contiguous substring
Contains(s, t) ==
    \E i \in 0..(Len(s) - Len(t)) : SubSeq(s, i + 1, i + Len(t)) = t

\* ------------------------------------------------------ fingerprint engine

\* A receipt time is [fmt, ts]: fmt in 1..4 is the position of the first
\* format of the list that parses it and ts the parsed time; fmt = 0 is a
\* string no format parses.
ParsesReceivedAt(received_at) == received_at.fmt \in 1..4

\* compute_fingerprint taking the epoch for a receipt time it cannot parse
compute_fingerprint_epoch(message_id, sender, received_at, clock) == message_id \o sender \o (IF ParsesReceivedAt(received_at) THEN DecStr(received_at.ts) ELSE DecStr(0))

\* compute_fingerprint taking the time of the call in every case
compute_fingerprint_at_call(message_id, sender, received_at, clock) == message_id \o sender \o DecStr(clock)

compute_fingerprint(message_id, sender, received_at, clock) ==
    LET unix_ts == IF ParsesReceivedAt(received_at)
                   THEN DecStr(received_at.ts)
                   ELSE DecStr(clock)
    IN  message_id \o sender \o unix_ts

normalize_task_title(title) ==
    IF title = <<>> THEN <<>>
    ELSE LET t1 == Strip(Lower(title))
             t2 == SelectSeq(t1, LAMBDA c : c \in Range(LowerCase)
                                            \/ c \in Range(Digits)
                                            \/ IsSpace(c))
         IN  CollapseSpaces(t2)

DateStr(d) == IF d = BadDate THEN <<"?">> ELSE DecStr(d)

compute_task_content_fingerprint(title, due_date, matter_id) ==
    LET normalized_title == normalize_task_title(title)
        due_date_str == IF due_date = None THEN <<"no-date">> ELSE DateStr(due_date)
        matter_str == IF matter_id = None THEN <<"no-matter">> ELSE DecStr(matter_id)
    IN  normalized_title \o <<"|">> \o due_date_str \o <<"|">> \o matter_str

compute_promotion_key(notion_page_id, title, due_date, todoist_project_id) ==
    LET normalized_title == CollapseSpaces(Strip(Lower(title)))
        page == IF notion_page_id = None THEN <<>> ELSE DecStr(notion_page_id)
        due == IF due_date = None THEN <<>> ELSE DateStr(due_date)
        project == IF todoist_project_id = None THEN <<>> ELSE DecStr(todoist_project_id)
    IN  page \o <<"|">> \o normalized_title \o <<"|">> \o due \o <<"|">> \o project

\* ------------------------------------------------------- status derivation

\* (due_date - datetime.now()).days: the due date is midnight of its day,
\* timedelta.days is the floor of the difference in days.
DaysUntilDue(due_date, clock) == ((due_date * SecondsPerDay) - clock) \div SecondsPerDay

ForceReview(due_date, clock) ==
    /\ due_date # None
    /\ due_date # BadDate
    /\ DaysUntilDue(due_date, clock) <= ForceReviewDays

\* determine_status with the confidence test moved ahead of the deadline test
determine_status_reordered(task, matter_id, has_attachment, attachment_processed, clock) ==
    IF has_attachment /\ ~attachment_processed THEN "Needs Review"
    ELSE IF matter_id = None THEN "Needs Review"
    ELSE IF task.confidence >= ConfidenceThreshold THEN "Proposed"
    ELSE "Needs Review"

\* determine_status without the test of the matter link
determine_status_unlinked(task, matter_id, has_attachment, attachment_processed, clock) ==
    IF ForceReview(task.due_date, clock) THEN "Needs Review"
    ELSE IF has_attachment /\ ~attachment_processed THEN "Needs Review"
    ELSE IF task.confidence >= ConfidenceThreshold THEN "Proposed"
    ELSE "Needs Review"

determine_status(task, matter_id, has_attachment, attachment_processed, clock) ==
    IF ForceReview(task.due_date, clock) THEN "Needs Review"
    ELSE IF has_attachment /\ ~attachment_processed THEN "Needs Review"
    ELSE IF matter_id = None THEN "Needs Review"
    ELSE IF task.confidence >= ConfidenceThreshold THEN "Proposed"
    ELSE "Needs Review"

\* ------------------------------------------------------------------ inputs

\* Extraction candidates.  confidence is in hundredths.
TaskA == [title |-> <<"F","a">>, due_date |-> 6, confidence |-> 90,
          subtasks |-> <<[title |-> <<"d">>, offset_days |-> 0 - 1]>>]
TaskA2 == [title |-> <<"f","a",".">>, due_date |-> 6, confidence |-> 90,
           subtasks |-> <<>>]
HearingH == [title |-> <<"h">>, event_date |-> 6]

CaptionSJ == <<"S"," ","v","."," ","J">>

\* Email payloads.  body and attachments[k].result are what the extraction
\* services return for them when they answer; data says whether the
\* attachment carries content.
Email1 == [message_id |-> <<"m","1">>, sender |-> <<"a">>,
           received_at |-> [fmt |-> 4, ts |-> 100], subject |-> <<"s">>,
           attachments |-> <<>>,
           body |-> [index_number |-> <<"7">>, caption |-> CaptionSJ,
                     tasks |-> <<TaskA>>, calendar_items |-> <<>>]]
Email2 == [message_id |-> <<"m","2">>, sender |-> <<"a">>,
           received_at |-> [fmt |-> 4, ts |-> 100], subject |-> <<"s">>,
           attachments |-> <<[data |-> TRUE,
                              result |-> [index_number |-> <<"7">>,
                                          caption |-> CaptionSJ,
                                          tasks |-> <<>>,
                                          calendar_items |-> <<HearingH>>]]>>,
           body |-> [index_number |-> <<>>, caption |-> <<>>,
                     tasks |-> <<TaskA2>>, calendar_items |-> <<>>]]
\* Two emails about one case whose caption names no first party and which
\* carry no index number.  Email3 has no attachment and no task.
Email3 == [Email1 EXCEPT !.message_id = <<"m","3">>,
                         !.body = [index_number |-> <<>>,
                                   caption |-> <<"-"," ","v","."," ","J">>,
                                   tasks |-> <<>>, calendar_items |-> <<>>]]
\* Email4 is about the same case and has two attachments: the first carries
\* no data, the second is a document with one task and a hearing two days
\* ahead.
Email4 == [Email3 EXCEPT !.message_id = <<"m","4">>,
                         !.attachments =
                             <<[data |-> FALSE,
                                result |-> [index_number |-> <<>>, caption |-> <<>>,
                                            tasks |-> <<>>, calendar_items |-> <<>>]],
                               [data |-> TRUE,
                                result |-> [index_number |-> <<>>, caption |-> <<>>,
                                            tasks |-> <<TaskA>>,
                                            calendar_items |->
                                                <<[HearingH EXCEPT !.event_date = 2]>>]]>>]
\* Emails 5 to 8 carry no task: one names first party S under another
\* index number, one names first party ST under the index number of Email1,
\* one has that index number and no caption, one has neither.  Email 9 is
\* Email1 with a receipt time that no date format parses.
Emails ==
    LET Bare(id, index_number, caption) ==
            [Email3 EXCEPT !.message_id = <<"m", id>>,
                           !.body = [index_number |-> index_number, caption |-> caption,
                                     tasks |-> <<>>, calendar_items |-> <<>>]]
    IN  <<Email1, Email2, Email3, Email4,
          Bare("5", <<"8">>, <<"S"," ","v","."," ","K">>),
          Bare("6", <<"7">>, <<"S","T"," ","v","."," ","J">>),
          Bare("7", <<"7">>, <<>>),
          Bare("8", <<>>, <<>>),
          [Email1 EXCEPT !.message_id = <<"m","9">>,
                         !.received_at = [fmt |-> 0, ts |-> 0]]>>
\* The email whose receipt time cannot be parsed.
Undated == Len(Emails)
\* The emails delivered where the whole service runs.
Mailbox == {1, 2}

\* ------------------------------------------------------------------- state
VARIABLES
    now,               \* the clock, in seconds
    email_receipts,    \* audit store, table email_receipts
    task_events,       \* audit store, table task_events
    tasks,             \* task board: Tasks database
    cases,             \* Legal Cases database
    mappings,          \* Mappings database
    calendar_items,    \* Calendar Items database
    matter_activity,   \* Matter Activity database
    todoist_projects,  \* personal task manager: projects
    todoist_tasks,     \* personal task manager: tasks and subtasks
    req,               \* the requests being handled, by worker slot
    nreq,              \* requests received so far
    seen,              \* the webhook events delivered so far
    faults_left,       \* external calls that may still fail
    GOOGLE_API_KEY,    \* whether the document-extraction key is configured
    status_call        \* applications of a function on its own: arguments and results

stores == <<email_receipts, task_events, tasks, cases, mappings, calendar_items,
            matter_activity, todoist_projects, todoist_tasks>>
vars == <<now, email_receipts, task_events, tasks, cases, mappings, calendar_items,
          matter_activity, todoist_projects, todoist_tasks, req, nreq, seen,
          faults_left, GOOGLE_API_KEY, status_call>>

Slots == {1}
\* The workers of the server: requests that arrive together are handled by
\* different workers at the same time.
Workers == {1, 2}

NoProps == [title |-> <<>>, due_date |-> None, matter |-> None, status |-> "none",
            todoist_task_id |-> None, subtasks |-> <<>>]

\* A request's locals.  replay: the same event was delivered before.
IdleReq ==
    [pc |-> "idle", kind |-> "none", status |-> "none", reason |-> "none",
     replay |-> FALSE,
     email |-> 0, fingerprint |-> <<>>,
     att |-> 0, attachment_processed |-> FALSE,
     all_tasks |-> <<>>, all_calendar_items |-> <<>>,
     gemini_index_number |-> <<>>, gemini_caption |-> <<>>,
     index_number |-> <<>>, caption |-> <<>>, case_name |-> <<>>,
     matter_id |-> None, stub_created |-> FALSE,
     i |-> 0, j |-> 0, notion_id |-> None, created |-> 0,
     page |-> None, embedded |-> FALSE, props |-> NoProps,
     todoist_project_id |-> None, mapping_id |-> None, project_name |-> <<>>,
     promotion_key |-> <<>>,
     todoist_task_id |-> None, task_content |-> <<>>, project_id |-> None,
     due_date |-> None, content_fingerprint |-> <<>>, task_title |-> <<>>]

\* No application of determine_status on its own is under way.
NoCall == [task |-> [due_date |-> None, confidence |-> 0], matter_id |-> None,
           has_attachment |-> FALSE, attachment_processed |-> FALSE,
           clock |-> 0, result |-> "none"]

\* The state after construction: every table empty, the personal task
\* manager holding its built-in project, no request received.
Fresh ==
    /\ email_receipts = <<>>
    /\ task_events = <<>>
    /\ tasks = <<>>
    /\ cases = <<>>
    /\ mappings = <<>>
    /\ calendar_items = <<>>
    /\ matter_activity = <<>>
    /\ todoist_projects = <<[name |-> <<"I","n","b","o","x">>]>>
    /\ todoist_tasks = <<>>
    /\ req = [r \in Workers |-> IdleReq]
    /\ nreq = 0
    /\ seen = {}
    /\ GOOGLE_API_KEY = TRUE

Init ==
    /\ Fresh
    /\ now = 0
    /\ faults_left = 0
    /\ status_call = NoCall

\* --------------------------------------------------------- external calls

\* The outcomes an external call can have: it answers (TRUE), or it fails
\* with a timeout, a refused connection or an error status (FALSE).
CallOutcomes == IF faults_left > 0 THEN {TRUE, FALSE} ELSE {TRUE}
Charge(ok) == faults_left' = IF ok THEN faults_left ELSE faults_left - 1

Free(r) == req[r].pc \in {"idle", "done"}
CanStart(r) == /\ nreq < MaxRequests
               /\ \A q \in Slots : Free(q)
\* An event is a triple <<kind, id, embedded>>.
Received(event) == /\ nreq' = nreq + 1
                   /\ seen' = seen \cup {event}
Goto(r, l, label) == req' = [req EXCEPT ![r] = [l EXCEPT !.pc = label]]
Respond(r, l, outcome) ==
    req' = [req EXCEPT ![r] = [l EXCEPT !.pc = "done", !.status = outcome]]

Ids(table) == 1..Len(table)

\* ------------------------------------------------------------ audit store

\* check_duplicate finding no receipt whatever the table holds
check_duplicate_blind(fingerprint, ok) == FALSE

\* GET email_receipts?fingerprint=eq.<fp>
check_duplicate(fingerprint, ok) ==
    ok /\ \E k \in Ids(email_receipts) : email_receipts[k].fingerprint = fingerprint

log_email_receipt(fingerprint, sender, received_at, ok) ==
    IF ok
    THEN Append(email_receipts, [fingerprint |-> fingerprint, sender |-> sender,
                                 received_at_utc |-> received_at])
    ELSE email_receipts

AuditEvent(event_type, fingerprint, notion_row_id, promotion_key, todoist_task_id) ==
    [event_type |-> event_type, fingerprint |-> fingerprint,
     notion_row_id |-> notion_row_id, promotion_key |-> promotion_key,
     todoist_task_id |-> todoist_task_id]

log_task_event(fingerprint, event_type, notion_page_id, ok) ==
    IF ok
    THEN Append(task_events, AuditEvent(event_type, fingerprint, notion_page_id, <<>>, None))
    ELSE task_events

\* store_task_content_fingerprint as an upsert: a stored row with the
\* fingerprint is overwritten
store_task_content_fingerprint_upsert(content_fingerprint, notion_page_id, ok) ==
    LET old == {k \in Ids(task_events) : /\ task_events[k].fingerprint = content_fingerprint
                                         /\ task_events[k].event_type = "ContentFingerprint"}
    IN  IF ~ok THEN task_events
        ELSE IF old = {}
        THEN Append(task_events, AuditEvent("ContentFingerprint", content_fingerprint,
                                            notion_page_id, <<>>, None))
        ELSE [k \in Ids(task_events) |->
                 IF k \in old THEN [task_events[k] EXCEPT !.notion_row_id = notion_page_id]
                 ELSE task_events[k]]

store_task_content_fingerprint(content_fingerprint, notion_page_id, ok) ==
    IF ok
    THEN Append(task_events,
                AuditEvent("ContentFingerprint", content_fingerprint, notion_page_id, <<>>, None))
    ELSE task_events

\* check_task_content_fingerprint_exists finding nothing
check_task_content_fingerprint_exists_blind(content_fingerprint, ok) == FALSE

check_task_content_fingerprint_exists(content_fingerprint, ok) ==
    ok /\ \E k \in Ids(task_events) :
             /\ task_events[k].fingerprint = content_fingerprint
             /\ task_events[k].event_type = "ContentFingerprint"

\* ------------------------------------------------------ matter resolution

\* The places where re.split's pattern \s+v\.?\s+|\s+vs\.?\s+ (ignoring case)
\* matches: a run of whitespace starting at p, then v or vs, an optional
\* period, and whitespace.
SpaceAt(s, k) == k <= Len(s) /\ IsSpace(s[k])
AfterV(s, k) ==
    \/ SpaceAt(s, k)
    \/ k <= Len(s) /\ s[k] = "." /\ SpaceAt(s, k + 1)
    \/ k <= Len(s) /\ s[k] \in {"s", "S"}
       /\ (SpaceAt(s, k + 1) \/ (k + 1 <= Len(s) /\ s[k + 1] = "." /\ SpaceAt(s, k + 2)))
SeparatorAt(s, p) ==
    \E q \in p..Len(s) :
        /\ \A t \in p..q : IsSpace(s[t])
        /\ q + 1 <= Len(s)
        /\ s[q + 1] \in {"v", "V"}
        /\ AfterV(s, q + 2)

RECURSIVE TrimLeft(_)
TrimLeft(s) == IF s # <<>> /\ ~IsAlnum(Head(s)) THEN TrimLeft(Tail(s)) ELSE s
RECURSIVE TrimRight(_)
TrimRight(s) ==
    IF s # <<>> /\ ~IsAlnum(s[Len(s)]) THEN TrimRight(SubSeq(s, 1, Len(s) - 1)) ELSE s

\* The first party of a caption; <<>> stands for None.
extract_first_plaintiff(caption) ==
    IF caption = <<>> THEN <<>>
    ELSE LET starts == {p \in 1..Len(caption) : SeparatorAt(caption, p)}
             first_party ==
                 IF starts = {} THEN caption
                 ELSE SubSeq(caption, 1, (CHOOSE p \in starts : \A q \in starts : p <= q) - 1)
         IN  TrimRight(TrimLeft(Strip(first_party)))

\* results[0] of a database query: the service fixes no order, so any
\* matching row may come first; {None} when nothing matches.
FirstOf(matches) == IF matches = {} THEN {None} ELSE matches

\* Case Name equals, then Case Name contains; an error in either query
\* gives None.
find_matter_by_case_name(case_name, ok) ==
    IF case_name = <<>> \/ ~ok THEN {None}
    ELSE LET case_name_clean == Strip(case_name)
             exact == {k \in Ids(cases) : cases[k].case_name = case_name_clean}
             partial == {k \in Ids(cases) : Contains(cases[k].case_name, case_name_clean)}
         IN  IF exact # {} THEN exact ELSE FirstOf(partial)

\* Index_number contains the stripped index number
find_matter_by_index_number(index_number, ok) ==
    IF index_number = <<>> \/ ~ok THEN {None}
    ELSE FirstOf({k \in Ids(cases) : Contains(cases[k].index_number, Strip(index_number))})

\* Index_number equals the index number
search_case_by_index(index_number, ok) ==
    IF index_number = <<>> \/ ~ok THEN {None}
    ELSE FirstOf({k \in Ids(cases) : cases[k].index_number = index_number})

UnknownMatter == <<"U","n","k","n","o","w","n"," ","M","a","t","t","e","r">>

StubMatter(index_number, caption) ==
    LET first == extract_first_plaintiff(caption)
    IN  [case_name |-> IF first # <<>> THEN first
                       ELSE IF caption # <<>> THEN caption ELSE UnknownMatter,
         index_number |-> index_number,
         title |-> caption,
         status |-> "Pending"]

create_stub_matter(index_number, caption, ok) ==
    IF ok THEN Append(cases, StubMatter(index_number, caption)) ELSE cases

\* -------------------------------------------------------------- task board

TaskPage(task, fingerprint, matter_id, status, llm_model) ==
    [title |-> task.title, status |-> status, due_date |-> task.due_date,
     message_fingerprint |-> fingerprint, matter |-> matter_id,
     todoist_task_id |-> None, completed_at |-> <<>>,
     subtasks |-> task.subtasks, llm_model |-> llm_model]

\* create_notion_task on a board that refuses a second record with the same
\* message fingerprint and title
create_notion_task_once(task, fingerprint, matter_id, status, llm_model, ok) ==
    IF ok /\ ~\E p \in Ids(tasks) : /\ tasks[p].message_fingerprint = fingerprint
                                    /\ tasks[p].title = task.title
    THEN Append(tasks, TaskPage(task, fingerprint, matter_id, status, llm_model))
    ELSE tasks

create_notion_task(task, fingerprint, matter_id, status, llm_model, ok) ==
    IF ok THEN Append(tasks, TaskPage(task, fingerprint, matter_id, status, llm_model))
    ELSE tasks

create_notion_calendar_item(event, matter_id, status, ok) ==
    IF ok
    THEN Append(calendar_items, [title |-> event.title, status |-> status,
                                 event_date |-> event.event_date, case |-> matter_id])
    ELSE calendar_items

\* The id a create call returns: the new row's, or None when it failed.
NewId(table, ok) == IF ok THEN Len(table) + 1 ELSE None

\* ------------------------------------------------------------------ intake
\* webhook(), one action per external call.  A step reads the request's
\* locals l == req[r], does the call and everything up to the next call.

env == <<now, nreq, seen, GOOGLE_API_KEY, status_call>>

ClaudeModel == "claude-sonnet-4-20250514"
GeminiModel == "gemini-2.5-pro"

Tagged(candidates, model) ==
    [k \in 1..Len(candidates) |->
        [title |-> candidates[k].title, due_date |-> candidates[k].due_date,
         confidence |-> candidates[k].confidence, subtasks |-> candidates[k].subtasks,
         source_model |-> model]]

TaggedItems(items, model) ==
    [k \in 1..Len(items) |->
        [title |-> items[k].title, event_date |-> items[k].event_date,
         source_model |-> model]]

ExtractionFailedPrefix ==
    <<"[","E","X","T","R","A","C","T","I","O","N"," ","F","A","I","L","E","D","]"," ",
      "R","e","v","i","e","w"," ","e","m","a","i","l",":"," ">>

\* extract_tasks_with_claude whose minimal extraction claims full confidence
extract_tasks_with_claude_confident(email, ok) ==
    IF ok THEN email.body
    ELSE [index_number |-> <<>>, caption |-> <<>>,
          tasks |-> <<[title |-> ExtractionFailedPrefix \o email.subject,
                       due_date |-> None, confidence |-> 100, subtasks |-> <<>>]>>,
          calendar_items |-> <<>>]

\* What extract_tasks_with_claude returns: the service's answer, or the
\* minimal extraction when the call or the parse of its answer fails.
extract_tasks_with_claude(email, ok) ==
    IF ok THEN email.body
    ELSE [index_number |-> <<>>, caption |-> <<>>,
          tasks |-> <<[title |-> ExtractionFailedPrefix \o email.subject,
                       due_date |-> None, confidence |-> 0, subtasks |-> <<>>]>>,
          calendar_items |-> <<>>]

\* The next attachment after position k that is a dict with data; 0 if none.
NextAttachment(email, k) ==
    LET rest == {a \in (k + 1)..Len(email.attachments) : email.attachments[a].data}
    IN  IF rest = {} THEN 0 ELSE CHOOSE a \in rest : \A b \in rest : a <= b

TaskPhase(l) ==
    IF l.i < Len(l.all_tasks) THEN "create_notion_task"
    ELSE IF l.j < Len(l.all_calendar_items) THEN "create_notion_calendar_item"
    ELSE "processed"

StubPhase(l) ==
    IF l.matter_id = None /\ (l.case_name # <<>> \/ l.caption # <<>>)
    THEN IF l.index_number # <<>> THEN "recheck_find_matter_by_index_number"
         ELSE "create_stub_matter"
    ELSE TaskPhase(l)

IndexPhase(l) ==
    IF l.matter_id = None /\ l.index_number # <<>> THEN "find_matter_by_index_number"
    ELSE StubPhase(l)

\* MatterPhase with the index number looked up before the case name
MatterPhase_index_first(l) ==
    IF l.index_number # <<>> THEN "find_matter_by_index_number"
    ELSE IF l.case_name # <<>> THEN "find_matter_by_case_name"
    ELSE StubPhase(l)

MatterPhase(l) ==
    IF l.case_name # <<>> THEN "find_matter_by_case_name" ELSE IndexPhase(l)

Advance(r, l, label) ==
    IF label = "processed" THEN Respond(r, l, "processed") ELSE Goto(r, l, label)

\* webhook() up to its first external call
StartIntake(r, e) ==
    /\ req' = [req EXCEPT ![r] =
                 [IdleReq EXCEPT !.pc = "check_duplicate", !.kind = "intake", !.email = e,
                                 !.replay = <<"intake", e, FALSE>> \in seen,
                                 !.fingerprint = compute_fingerprint(
                                     Emails[e].message_id, Emails[e].sender,
                                     Emails[e].received_at, now)]]
    /\ Received(<<"intake", e, FALSE>>)
    /\ UNCHANGED <<now, stores, faults_left, GOOGLE_API_KEY, status_call>>

DeliverEmail(r, e) == CanStart(r) /\ StartIntake(r, e)

\* An email arrives at a worker that has handled nothing yet, whatever the
\* other workers are doing.
DeliverEmailConcurrently(r, e) == req[r].pc = "idle" /\ StartIntake(r, e)

\* webhook() logging the receipt before it looks at the gate's answer
IntakeCheckDuplicate_logging(r) ==
    LET l == req[r] IN
    /\ l.pc = "check_duplicate"
    /\ \E ok \in CallOutcomes :
        /\ Charge(ok)
        /\ IF check_duplicate(l.fingerprint, ok)
           THEN Respond(r, l, "duplicate")
           ELSE Goto(r, l, "log_email_receipt")
    /\ email_receipts' = log_email_receipt(l.fingerprint, Emails[l.email].sender,
                                           Emails[l.email].received_at, TRUE)
    /\ UNCHANGED <<task_events, tasks, cases, mappings, calendar_items, matter_activity,
                   todoist_projects, todoist_tasks, env>>

IntakeCheckDuplicate(r) ==
    LET l == req[r] IN
    /\ l.pc = "check_duplicate"
    /\ \E ok \in CallOutcomes :
        /\ Charge(ok)
        /\ IF check_duplicate(l.fingerprint, ok)
           THEN Respond(r, l, "duplicate")
           ELSE Goto(r, l, "log_email_receipt")
    /\ UNCHANGED <<stores, env>>

IntakeLogEmailReceipt(r) ==
    LET l == req[r]
        email == Emails[l.email]
        first == NextAttachment(email, 0)
    IN
    /\ l.pc = "log_email_receipt"
    /\ \E ok \in CallOutcomes :
        /\ Charge(ok)
        /\ email_receipts' = log_email_receipt(l.fingerprint, email.sender,
                                               email.received_at, ok)
    /\ IF email.attachments # <<>> /\ GOOGLE_API_KEY /\ first # 0
       THEN Goto(r, [l EXCEPT !.att = first], "extract_with_gemini")
       ELSE Goto(r, l, "extract_tasks_with_claude")
    /\ UNCHANGED <<task_events, tasks, cases, mappings, calendar_items, matter_activity,
                   todoist_projects, todoist_tasks, env>>

IntakeExtractWithGemini(r) ==
    LET l == req[r]
        email == Emails[l.email]
        result == email.attachments[l.att].result
        more == NextAttachment(email, l.att)
    IN
    /\ l.pc = "extract_with_gemini"
    /\ \E ok \in CallOutcomes :
        /\ Charge(ok)
        /\ LET l2 == IF ok
                     THEN [l EXCEPT
                             !.attachment_processed = TRUE,
                             !.all_tasks = @ \o Tagged(result.tasks, GeminiModel),
                             !.all_calendar_items =
                                 @ \o TaggedItems(result.calendar_items, GeminiModel),
                             !.gemini_index_number =
                                 IF @ = <<>> THEN result.index_number ELSE @,
                             !.gemini_caption = IF @ = <<>> THEN result.caption ELSE @]
                     ELSE l
           IN  IF more # 0
               THEN Goto(r, [l2 EXCEPT !.att = more], "extract_with_gemini")
               ELSE Goto(r, l2, "extract_tasks_with_claude")
    /\ UNCHANGED <<stores, env>>

IntakeExtractWithClaude(r) ==
    LET l == req[r]
        email == Emails[l.email]
    IN
    /\ l.pc = "extract_tasks_with_claude"
    /\ \E ok \in CallOutcomes :
        /\ Charge(ok)
        /\ LET claude_extraction == extract_tasks_with_claude(email, ok)
               index_number == IF l.gemini_index_number # <<>> THEN l.gemini_index_number
                               ELSE claude_extraction.index_number
               caption == IF l.gemini_caption # <<>> THEN l.gemini_caption
                          ELSE claude_extraction.caption
               l2 == [l EXCEPT
                        !.all_tasks = @ \o Tagged(claude_extraction.tasks, ClaudeModel),
                        !.all_calendar_items =
                            @ \o TaggedItems(claude_extraction.calendar_items, ClaudeModel),
                        !.index_number = index_number,
                        !.caption = caption,
                        !.case_name = extract_first_plaintiff(caption)]
           IN  Advance(r, l2, MatterPhase(l2))
    /\ UNCHANGED <<stores, env>>

IntakeFindMatterByCaseName(r) ==
    LET l == req[r] IN
    /\ l.pc = "find_matter_by_case_name"
    /\ \E ok \in CallOutcomes :
        /\ Charge(ok)
        /\ \E m \in find_matter_by_case_name(l.case_name, ok) :
            LET l2 == [l EXCEPT !.matter_id = m]
            IN  Advance(r, l2, IndexPhase(l2))
    /\ UNCHANGED <<stores, env>>

IntakeFindMatterByIndexNumber(r) ==
    LET l == req[r] IN
    /\ l.pc = "find_matter_by_index_number"
    /\ \E ok \in CallOutcomes :
        /\ Charge(ok)
        /\ \E m \in find_matter_by_index_number(l.index_number, ok) :
            LET l2 == [l EXCEPT !.matter_id = m]
            IN  IF m = None THEN Goto(r, l2, "search_case_by_index")
                ELSE Advance(r, l2, StubPhase(l2))
    /\ UNCHANGED <<stores, env>>

IntakeSearchCaseByIndex(r) ==
    LET l == req[r] IN
    /\ l.pc = "search_case_by_index"
    /\ \E ok \in CallOutcomes :
        /\ Charge(ok)
        /\ \E m \in search_case_by_index(l.index_number, ok) :
            LET l2 == [l EXCEPT !.matter_id = m]
            IN  Advance(r, l2, StubPhase(l2))
    /\ UNCHANGED <<stores, env>>

IntakeRecheckFindMatterByIndexNumber(r) ==
    LET l == req[r] IN
    /\ l.pc = "recheck_find_matter_by_index_number"
    /\ \E ok \in CallOutcomes :
        /\ Charge(ok)
        /\ \E existing \in find_matter_by_index_number(l.index_number, ok) :
            IF existing = None THEN Goto(r, l, "recheck_search_case_by_index")
            ELSE LET l2 == [l EXCEPT !.matter_id = existing]
                 IN  Advance(r, l2, TaskPhase(l2))
    /\ UNCHANGED <<stores, env>>

IntakeRecheckSearchCaseByIndex(r) ==
    LET l == req[r] IN
    /\ l.pc = "recheck_search_case_by_index"
    /\ \E ok \in CallOutcomes :
        /\ Charge(ok)
        /\ \E existing \in search_case_by_index(l.index_number, ok) :
            IF existing = None THEN Goto(r, l, "create_stub_matter")
            ELSE LET l2 == [l EXCEPT !.matter_id = existing]
                 IN  Advance(r, l2, TaskPhase(l2))
    /\ UNCHANGED <<stores, env>>

IntakeCreateStubMatter(r) ==
    LET l == req[r] IN
    /\ l.pc = "create_stub_matter"
    /\ \E ok \in CallOutcomes :
        /\ Charge(ok)
        /\ cases' = create_stub_matter(l.index_number, l.caption, ok)
        /\ LET l2 == [l EXCEPT !.matter_id = NewId(cases, ok), !.stub_created = ok]
           IN  Advance(r, l2, TaskPhase(l2))
    /\ UNCHANGED <<email_receipts, task_events, tasks, mappings, calendar_items,
                   matter_activity, todoist_projects, todoist_tasks, env>>

IntakeCreateNotionTask(r) ==
    LET l == req[r]
        email == Emails[l.email]
        task == l.all_tasks[l.i + 1]
        status == determine_status(task, l.matter_id, email.attachments # <<>>,
                                   l.attachment_processed, now)
    IN
    /\ l.pc = "create_notion_task"
    /\ \E ok \in CallOutcomes :
        /\ Charge(ok)
        /\ tasks' = create_notion_task(task, l.fingerprint, l.matter_id, status,
                                       task.source_model, ok)
        /\ IF NewId(tasks, ok) # None
           THEN Goto(r, [l EXCEPT !.notion_id = NewId(tasks, ok), !.created = @ + 1],
                     "log_task_event")
           ELSE LET l2 == [l EXCEPT !.i = @ + 1]
                IN  Advance(r, l2, TaskPhase(l2))
    /\ UNCHANGED <<email_receipts, task_events, cases, mappings, calendar_items,
                   matter_activity, todoist_projects, todoist_tasks, env>>

IntakeLogTaskEvent(r) ==
    LET l == req[r] IN
    /\ l.pc = "log_task_event"
    /\ \E ok \in CallOutcomes :
        /\ Charge(ok)
        /\ task_events' = log_task_event(l.fingerprint, "proposed", l.notion_id, ok)
    /\ Goto(r, l, "store_task_content_fingerprint")
    /\ UNCHANGED <<email_receipts, tasks, cases, mappings, calendar_items,
                   matter_activity, todoist_projects, todoist_tasks, env>>

IntakeStoreTaskContentFingerprint(r) ==
    LET l == req[r]
        task == l.all_tasks[l.i + 1]
        content_fp == compute_task_content_fingerprint(task.title, task.due_date, l.matter_id)
        l2 == [l EXCEPT !.i = @ + 1]
    IN
    /\ l.pc = "store_task_content_fingerprint"
    /\ \E ok \in CallOutcomes :
        /\ Charge(ok)
        /\ task_events' = store_task_content_fingerprint(content_fp, l.notion_id, ok)
    /\ Advance(r, l2, TaskPhase(l2))
    /\ UNCHANGED <<email_receipts, tasks, cases, mappings, calendar_items,
                   matter_activity, todoist_projects, todoist_tasks, env>>

IntakeCreateNotionCalendarItem(r) ==
    LET l == req[r]
        event == l.all_calendar_items[l.j + 1]
        status == IF l.matter_id # None THEN "Proposed" ELSE "Needs Review"
    IN
    /\ l.pc = "create_notion_calendar_item"
    /\ \E ok \in CallOutcomes :
        /\ Charge(ok)
        /\ calendar_items' = create_notion_calendar_item(event, l.matter_id, status, ok)
        /\ LET l2 == [l EXCEPT !.j = @ + 1, !.created = IF ok THEN @ + 1 ELSE @]
           IN  Advance(r, l2, TaskPhase(l2))
    /\ UNCHANGED <<email_receipts, task_events, tasks, cases, mappings,
                   matter_activity, todoist_projects, todoist_tasks, env>>

Intake(r) ==
    \/ IntakeCheckDuplicate(r)
    \/ IntakeLogEmailReceipt(r)
    \/ IntakeExtractWithGemini(r)
    \/ IntakeExtractWithClaude(r)
    \/ IntakeFindMatterByCaseName(r)
    \/ IntakeFindMatterByIndexNumber(r)
    \/ IntakeSearchCaseByIndex(r)
    \/ IntakeRecheckFindMatterByIndexNumber(r)
    \/ IntakeRecheckSearchCaseByIndex(r)
    \/ IntakeCreateStubMatter(r)
    \/ IntakeCreateNotionTask(r)
    \/ IntakeLogTaskEvent(r)
    \/ IntakeStoreTaskContentFingerprint(r)
    \/ IntakeCreateNotionCalendarItem(r)

\* ---------------------------------------------------- personal task manager

\* GET /projects, then the first project whose name matches, ignoring case
\* and surrounding whitespace.  A failed listing is an empty list.
find_todoist_project_by_name(project_name, ok) ==
    IF ~ok THEN {None}
    ELSE FirstOf({k \in Ids(todoist_projects) :
                    Strip(Lower(todoist_projects[k].name)) = Strip(Lower(project_name))})

create_todoist_project(project_name, ok) ==
    IF ok THEN Append(todoist_projects, [name |-> project_name]) ELSE todoist_projects

TodoistTask(content, due_date, project_id, parent_id) ==
    [content |-> content, due_date |-> due_date, project_id |-> project_id,
     parent_id |-> parent_id]

calculate_subtask_due_date(parent_due_date, offset_days) ==
    IF parent_due_date = None \/ parent_due_date = BadDate THEN None
    ELSE parent_due_date + offset_days

\* ---------------------------------------------------------------- mappings

\* Mappings whose Case relation contains the matter: the pair
\* <<project id, mapping id>> of the first result.
get_todoist_project_for_matter(matter_id, ok) ==
    IF matter_id = None \/ ~ok THEN {<<None, None>>}
    ELSE LET results == {k \in Ids(mappings) : mappings[k].case = matter_id}
         IN  IF results = {} THEN {<<None, None>>}
             ELSE {<<mappings[k].todoist_project_id, k>> : k \in results}

\* get_matter_for_todoist_project without the filter on the project id
get_matter_for_todoist_project_unfiltered(todoist_project_id, ok) ==
    IF todoist_project_id = None \/ ~ok THEN {None}
    ELSE FirstOf({mappings[k].case : k \in Ids(mappings)})

\* Mappings whose Todoist_project_id equals the project: the matter of the
\* first result.
get_matter_for_todoist_project(todoist_project_id, ok) ==
    IF todoist_project_id = None \/ ~ok THEN {None}
    ELSE FirstOf({mappings[k].case :
                    k \in {m \in Ids(mappings) :
                             mappings[m].todoist_project_id = todoist_project_id}})

\* The title of the matter's page; <<>> stands for None.
get_case_name_from_notion(matter_id, ok) ==
    IF ok THEN cases[matter_id].case_name ELSE <<>>

create_mapping_entry(matter_id, todoist_project_id, case_name, ok) ==
    IF ok
    THEN Append(mappings, [case |-> matter_id, todoist_project_id |-> todoist_project_id,
                           name |-> case_name])
    ELSE mappings

\* --------------------------------------------------------------- promotion

\* check_promotion_exists answering "already promoted" when its query fails
check_promotion_exists_closed(promotion_key, ok) ==
    ~ok \/ \E k \in Ids(task_events) :
               /\ task_events[k].promotion_key = promotion_key
               /\ task_events[k].event_type = "Promoted"

check_promotion_exists(promotion_key, ok) ==
    ok /\ \E k \in Ids(task_events) :
             /\ task_events[k].promotion_key = promotion_key
             /\ task_events[k].event_type = "Promoted"

ManualModel == "manual (Todoist)"

\* The properties of a page as the task board returns them.
PageProps(p) ==
    [title |-> tasks[p].title, due_date |-> tasks[p].due_date, matter |-> tasks[p].matter,
     status |-> tasks[p].status, todoist_task_id |-> tasks[p].todoist_task_id,
     subtasks |-> tasks[p].subtasks]

\* The properties the approval event of page p carries when the automation
\* embeds them: those of the moment the page became Approved.
ApprovalSnapshot(p) ==
    [PageProps(p) EXCEPT
        !.status = "Approved",
        !.todoist_task_id = IF tasks[p].llm_model = ManualModel THEN @ ELSE None]

EverApproved(p) == tasks[p].status \in {"Approved", "Promoted", "Completed"}

\* The statements at lines 1730-1768, had they been bound to the name
\* create_todoist_task: POST /tasks, the new task's id or None.
create_todoist_task_bound(title, due_date, project_id, ok) ==
    [raised |-> FALSE,
     todoist_tasks |-> IF ok THEN Append(todoist_tasks,
                                         TodoistTask(title, due_date, project_id, None))
                       ELSE todoist_tasks,
     id |-> NewId(todoist_tasks, ok)]

\* The call create_todoist_task(...) of promotion_webhook.  The module binds
\* no such name: the function's body follows the return statement of
\* create_notion_task_from_todoist and is never executed as a definition, so
\* the call raises NameError and creates nothing.
create_todoist_task(title, due_date, project_id, ok) ==
    [raised |-> TRUE, todoist_tasks |-> todoist_tasks, id |-> None]

\* create_todoist_subtask for each subtask of the list, in order
CreatedSubtasks(subtasks, parent_id, due_date, project_id) ==
    [k \in 1..Len(subtasks) |->
        TodoistTask(subtasks[k].title,
                    calculate_subtask_due_date(due_date, subtasks[k].offset_days),
                    project_id, parent_id)]

Skip(r, l, reason) == Respond(r, [l EXCEPT !.reason = reason], "skipped")

PromotionKey(r, l) ==
    Goto(r, [l EXCEPT !.promotion_key =
                 compute_promotion_key(l.page, l.props.title, l.props.due_date,
                                       l.todoist_project_id)],
         "check_promotion_exists")

\* PromotionChecks without the status test
PromotionChecks_any_status(r, l) ==
    IF l.props.todoist_task_id # None THEN Skip(r, l, "already_promoted")
    ELSE IF l.props.matter = None THEN PromotionKey(r, l)
    ELSE Goto(r, l, "get_todoist_project_for_matter")

\* PromotionChecks without the test of the stored external id
PromotionChecks_any_id(r, l) ==
    IF l.props.status # "Approved" THEN Skip(r, l, "not_approved")
    ELSE IF l.props.matter = None THEN PromotionKey(r, l)
    ELSE Goto(r, l, "get_todoist_project_for_matter")

\* From the status check to the first external call after it
PromotionChecks(r, l) ==
    IF l.props.status # "Approved" THEN Skip(r, l, "not_approved")
    ELSE IF l.props.todoist_task_id # None THEN Skip(r, l, "already_promoted")
    ELSE IF l.props.matter = None THEN PromotionKey(r, l)
    ELSE Goto(r, l, "get_todoist_project_for_matter")

DeliverApproval(r, p, embedded) ==
    LET event == <<"promotion", p, embedded>>
        l == [IdleReq EXCEPT !.kind = "promotion", !.page = p, !.embedded = embedded,
                             !.replay = event \in seen]
    IN
    /\ CanStart(r)
    /\ embedded => EverApproved(p)
    /\ Received(event)
    /\ IF embedded THEN PromotionChecks(r, [l EXCEPT !.props = ApprovalSnapshot(p)])
       ELSE Goto(r, l, "fetch_page")
    /\ UNCHANGED <<now, stores, faults_left, GOOGLE_API_KEY, status_call>>

PromotionFetchPage(r) ==
    LET l == req[r] IN
    /\ l.pc = "fetch_page"
    /\ \E ok \in CallOutcomes :
        /\ Charge(ok)
        /\ IF ok THEN PromotionChecks(r, [l EXCEPT !.props = PageProps(l.page)])
           ELSE Respond(r, l, "error")
    /\ UNCHANGED <<stores, env>>

PromotionGetTodoistProjectForMatter(r) ==
    LET l == req[r] IN
    /\ l.pc = "get_todoist_project_for_matter"
    /\ \E ok \in CallOutcomes :
        /\ Charge(ok)
        /\ \E found \in get_todoist_project_for_matter(l.props.matter, ok) :
            IF found[1] # None
            THEN PromotionKey(r, [l EXCEPT !.todoist_project_id = found[1],
                                           !.mapping_id = found[2]])
            ELSE Goto(r, l, "get_case_name_from_notion")
    /\ UNCHANGED <<stores, env>>

PromotionGetCaseNameFromNotion(r) ==
    LET l == req[r] IN
    /\ l.pc = "get_case_name_from_notion"
    /\ \E ok \in CallOutcomes :
        /\ Charge(ok)
        /\ LET case_name == get_case_name_from_notion(l.props.matter, ok)
           IN  IF case_name = <<>> THEN PromotionKey(r, l)
               ELSE Goto(r, [l EXCEPT !.project_name = case_name],
                         "find_todoist_project_by_name")
    /\ UNCHANGED <<stores, env>>

PromotionFindTodoistProjectByName(r) ==
    LET l == req[r] IN
    /\ l.pc = "find_todoist_project_by_name"
    /\ \E ok \in CallOutcomes :
        /\ Charge(ok)
        /\ \E existing_project_id \in find_todoist_project_by_name(l.project_name, ok) :
            IF existing_project_id # None
            THEN Goto(r, [l EXCEPT !.todoist_project_id = existing_project_id],
                      "create_mapping_entry")
            ELSE Goto(r, l, "create_todoist_project")
    /\ UNCHANGED <<stores, env>>

PromotionCreateTodoistProject(r) ==
    LET l == req[r] IN
    /\ l.pc = "create_todoist_project"
    /\ \E ok \in CallOutcomes :
        /\ Charge(ok)
        /\ todoist_projects' = create_todoist_project(l.project_name, ok)
        /\ IF NewId(todoist_projects, ok) = None THEN PromotionKey(r, l)
           ELSE Goto(r, [l EXCEPT !.todoist_project_id = NewId(todoist_projects, ok)],
                     "create_mapping_entry")
    /\ UNCHANGED <<email_receipts, task_events, tasks, cases, mappings, calendar_items,
                   matter_activity, todoist_tasks, env>>

PromotionCreateMappingEntry(r) ==
    LET l == req[r] IN
    /\ l.pc = "create_mapping_entry"
    /\ \E ok \in CallOutcomes :
        /\ Charge(ok)
        /\ mappings' = create_mapping_entry(l.props.matter, l.todoist_project_id,
                                            l.project_name, ok)
        /\ PromotionKey(r, [l EXCEPT !.mapping_id = NewId(mappings, ok)])
    /\ UNCHANGED <<email_receipts, task_events, tasks, cases, calendar_items,
                   matter_activity, todoist_projects, todoist_tasks, env>>

PromotionCheckPromotionExists(r) ==
    LET l == req[r] IN
    /\ l.pc = "check_promotion_exists"
    /\ \E ok \in CallOutcomes :
        /\ Charge(ok)
        /\ IF check_promotion_exists(l.promotion_key, ok)
           THEN Skip(r, l, "idempotency")
           ELSE Goto(r, l, "create_todoist_task")
    /\ UNCHANGED <<stores, env>>

\* The call of create_todoist_task and what follows it up to the handler's
\* except clause: the subtasks, then the call of update_notion_task_with_todoist,
\* a name the module does not bind either.  Every path ends in the error
\* response.
PromotionCreateTodoistTask(r) ==
    LET l == req[r] IN
    /\ l.pc = "create_todoist_task"
    /\ \E ok \in CallOutcomes :
        /\ Charge(ok \/ create_todoist_task(<<>>, None, None, ok).raised)
        /\ LET made == create_todoist_task(l.props.title, l.props.due_date,
                                           l.todoist_project_id, ok)
           IN  IF made.raised \/ made.id = None
               THEN /\ todoist_tasks' = made.todoist_tasks
                    /\ Respond(r, l, "error")
               ELSE /\ todoist_tasks' =
                          made.todoist_tasks
                          \o CreatedSubtasks(l.props.subtasks, made.id, l.props.due_date,
                                             l.todoist_project_id)
                    /\ Respond(r, [l EXCEPT !.todoist_task_id = made.id], "error")
    /\ UNCHANGED <<email_receipts, task_events, tasks, cases, mappings, calendar_items,
                   matter_activity, todoist_projects, env>>

Promotion(r) ==
    \/ PromotionFetchPage(r)
    \/ PromotionGetTodoistProjectForMatter(r)
    \/ PromotionGetCaseNameFromNotion(r)
    \/ PromotionFindTodoistProjectByName(r)
    \/ PromotionCreateTodoistProject(r)
    \/ PromotionCreateMappingEntry(r)
    \/ PromotionCheckPromotionExists(r)
    \/ PromotionCreateTodoistTask(r)

\* -------------------------------------------------------------- completion

\* Tasks whose Todoist Task ID equals the id: the page of the first result.
find_notion_task_by_todoist_id(todoist_task_id, ok) ==
    IF ~ok THEN {None}
    ELSE FirstOf({k \in Ids(tasks) : tasks[k].todoist_task_id = todoist_task_id})

\* Status and Completed At (the time of the call) are patched.
\* mark_notion_task_completed sending the record back to review
mark_notion_task_completed_reviewed(notion_page_id, clock, ok) ==
    IF ok THEN [tasks EXCEPT ![notion_page_id].status = "Needs Review"] ELSE tasks

mark_notion_task_completed(notion_page_id, clock, ok) ==
    IF ok
    THEN [tasks EXCEPT ![notion_page_id].status = "Completed",
                       ![notion_page_id].completed_at = <<clock>>]
    ELSE tasks

log_completion_event(notion_page_id, todoist_task_id, ok) ==
    IF ok
    THEN Append(task_events, AuditEvent("Completed", <<>>, notion_page_id, <<>>, todoist_task_id))
    ELSE task_events

\* log_orphan_completion writing nothing
log_orphan_completion_silent(todoist_task_id, ok) == task_events

log_orphan_completion(todoist_task_id, ok) ==
    IF ok
    THEN Append(task_events, AuditEvent("CompletedOrphan", <<>>, None, <<>>, todoist_task_id))
    ELSE task_events

create_matter_activity(matter_id, activity_type, related_task_id, ok) ==
    IF matter_id # None /\ ok
    THEN Append(matter_activity, [type |-> activity_type, case |-> matter_id,
                                  related_task |-> related_task_id])
    ELSE matter_activity

DeliverCompletion(r, t) ==
    LET event == <<"completion", t, FALSE>> IN
    /\ CanStart(r)
    /\ Received(event)
    /\ Goto(r, [IdleReq EXCEPT !.kind = "completion", !.todoist_task_id = t,
                               !.task_content = todoist_tasks[t].content,
                               !.replay = event \in seen],
            "find_notion_task_by_todoist_id")
    /\ UNCHANGED <<now, stores, faults_left, GOOGLE_API_KEY, status_call>>

CompletionFindNotionTask(r) ==
    LET l == req[r] IN
    /\ l.pc = "find_notion_task_by_todoist_id"
    /\ \E ok \in CallOutcomes :
        /\ Charge(ok)
        /\ \E notion_task \in find_notion_task_by_todoist_id(l.todoist_task_id, ok) :
            IF notion_task = None THEN Goto(r, l, "log_orphan_completion")
            ELSE Goto(r, [l EXCEPT !.notion_id = notion_task,
                                   !.task_title = tasks[notion_task].title,
                                   !.matter_id = tasks[notion_task].matter],
                      "mark_notion_task_completed")
    /\ UNCHANGED <<stores, env>>

CompletionLogOrphan(r) ==
    LET l == req[r] IN
    /\ l.pc = "log_orphan_completion"
    /\ \E ok \in CallOutcomes :
        /\ Charge(ok)
        /\ task_events' = log_orphan_completion(l.todoist_task_id, ok)
    /\ Respond(r, l, "orphan")
    /\ UNCHANGED <<email_receipts, tasks, cases, mappings, calendar_items,
                   matter_activity, todoist_projects, todoist_tasks, env>>

CompletionMarkCompleted(r) ==
    LET l == req[r] IN
    /\ l.pc = "mark_notion_task_completed"
    /\ \E ok \in CallOutcomes :
        /\ Charge(ok)
        /\ tasks' = mark_notion_task_completed(l.notion_id, now, ok)
        /\ IF ok THEN Goto(r, l, "log_completion_event") ELSE Respond(r, l, "error")
    /\ UNCHANGED <<email_receipts, task_events, cases, mappings, calendar_items,
                   matter_activity, todoist_projects, todoist_tasks, env>>

CompletionLogEvent(r) ==
    LET l == req[r] IN
    /\ l.pc = "log_completion_event"
    /\ \E ok \in CallOutcomes :
        /\ Charge(ok)
        /\ task_events' = log_completion_event(l.notion_id, l.todoist_task_id, ok)
    /\ IF l.matter_id # None THEN Goto(r, l, "completion_matter_activity")
       ELSE Respond(r, l, "completed")
    /\ UNCHANGED <<email_receipts, tasks, cases, mappings, calendar_items,
                   matter_activity, todoist_projects, todoist_tasks, env>>

CompletionMatterActivity(r) ==
    LET l == req[r] IN
    /\ l.pc = "completion_matter_activity"
    /\ \E ok \in CallOutcomes :
        /\ Charge(ok)
        /\ matter_activity' = create_matter_activity(l.matter_id, "Completed", l.notion_id, ok)
    /\ Respond(r, l, "completed")
    /\ UNCHANGED <<email_receipts, task_events, tasks, cases, mappings, calendar_items,
                   todoist_projects, todoist_tasks, env>>

Completion(r) ==
    \/ CompletionFindNotionTask(r)
    \/ CompletionLogOrphan(r)
    \/ CompletionMarkCompleted(r)
    \/ CompletionLogEvent(r)
    \/ CompletionMatterActivity(r)

\* ------------------------------------------------------------ reverse sync

\* create_notion_task_from_todoist filing the record as a proposal
create_notion_task_from_todoist_proposed(todoist_task_id, title, due_date, matter_id, ok) ==
    IF ok
    THEN Append(tasks, [title |-> title, status |-> "Proposed", due_date |-> due_date,
                        message_fingerprint |-> <<>>, matter |-> matter_id,
                        todoist_task_id |-> todoist_task_id, completed_at |-> <<>>,
                        subtasks |-> <<>>, llm_model |-> ManualModel])
    ELSE tasks

create_notion_task_from_todoist(todoist_task_id, title, due_date, matter_id, ok) ==
    IF ok
    THEN Append(tasks, [title |-> title, status |-> "Approved", due_date |-> due_date,
                        message_fingerprint |-> <<>>, matter |-> matter_id,
                        todoist_task_id |-> todoist_task_id, completed_at |-> <<>>,
                        subtasks |-> <<>>, llm_model |-> ManualModel])
    ELSE tasks

DeliverItemAdded(r, t) ==
    LET event == <<"item_added", t, FALSE>> IN
    /\ CanStart(r)
    /\ Received(event)
    /\ Goto(r, [IdleReq EXCEPT !.kind = "item_added", !.todoist_task_id = t,
                               !.task_content = todoist_tasks[t].content,
                               !.project_id = todoist_tasks[t].project_id,
                               !.due_date = todoist_tasks[t].due_date,
                               !.replay = event \in seen],
            "get_matter_for_todoist_project")
    /\ UNCHANGED <<now, stores, faults_left, GOOGLE_API_KEY, status_call>>

ItemAddedGetMatter(r) ==
    LET l == req[r] IN
    /\ l.pc = "get_matter_for_todoist_project"
    /\ \E ok \in CallOutcomes :
        /\ Charge(ok)
        /\ \E m \in get_matter_for_todoist_project(l.project_id, ok) :
            IF m = None THEN Respond(r, l, "ignored")
            ELSE Goto(r, [l EXCEPT !.matter_id = m], "check_notion_task_exists_by_todoist_id")
    /\ UNCHANGED <<stores, env>>

ItemAddedCheckExists(r) ==
    LET l == req[r] IN
    /\ l.pc = "check_notion_task_exists_by_todoist_id"
    /\ \E ok \in CallOutcomes :
        /\ Charge(ok)
        /\ \E task \in find_notion_task_by_todoist_id(l.todoist_task_id, ok) :
            IF task # None THEN Respond(r, l, "exists")
            ELSE Goto(r, [l EXCEPT !.content_fingerprint =
                              compute_task_content_fingerprint(l.task_content, l.due_date,
                                                               l.matter_id)],
                      "check_task_content_fingerprint_exists")
    /\ UNCHANGED <<stores, env>>

ItemAddedCheckContentFingerprint(r) ==
    LET l == req[r] IN
    /\ l.pc = "check_task_content_fingerprint_exists"
    /\ \E ok \in CallOutcomes :
        /\ Charge(ok)
        /\ IF check_task_content_fingerprint_exists(l.content_fingerprint, ok)
           THEN Respond(r, l, "duplicate")
           ELSE Goto(r, l, "create_notion_task_from_todoist")
    /\ UNCHANGED <<stores, env>>

ItemAddedCreateNotionTask(r) ==
    LET l == req[r] IN
    /\ l.pc = "create_notion_task_from_todoist"
    /\ \E ok \in CallOutcomes :
        /\ Charge(ok)
        /\ tasks' = create_notion_task_from_todoist(l.todoist_task_id, l.task_content,
                                                    l.due_date, l.matter_id, ok)
        /\ IF NewId(tasks, ok) = None THEN Respond(r, l, "error")
           ELSE Goto(r, [l EXCEPT !.notion_id = NewId(tasks, ok)],
                     "item_added_store_content_fingerprint")
    /\ UNCHANGED <<email_receipts, task_events, cases, mappings, calendar_items,
                   matter_activity, todoist_projects, todoist_tasks, env>>

ItemAddedStoreContentFingerprint(r) ==
    LET l == req[r] IN
    /\ l.pc = "item_added_store_content_fingerprint"
    /\ \E ok \in CallOutcomes :
        /\ Charge(ok)
        /\ task_events' = store_task_content_fingerprint(l.content_fingerprint, l.notion_id, ok)
    /\ Goto(r, l, "item_added_log_task_event")
    /\ UNCHANGED <<email_receipts, tasks, cases, mappings, calendar_items,
                   matter_activity, todoist_projects, todoist_tasks, env>>

ItemAddedLogTaskEvent(r) ==
    LET l == req[r] IN
    /\ l.pc = "item_added_log_task_event"
    /\ \E ok \in CallOutcomes :
        /\ Charge(ok)
        /\ task_events' = log_task_event(<<"todoist-">> \o DecStr(l.todoist_task_id),
                                         "reverse_sync", l.notion_id, ok)
    /\ Goto(r, l, "item_added_matter_activity")
    /\ UNCHANGED <<email_receipts, tasks, cases, mappings, calendar_items,
                   matter_activity, todoist_projects, todoist_tasks, env>>

ItemAddedMatterActivity(r) ==
    LET l == req[r] IN
    /\ l.pc = "item_added_matter_activity"
    /\ \E ok \in CallOutcomes :
        /\ Charge(ok)
        /\ matter_activity' = create_matter_activity(l.matter_id, "Proposed", l.notion_id, ok)
    /\ Respond(r, l, "synced")
    /\ UNCHANGED <<email_receipts, task_events, tasks, cases, mappings, calendar_items,
                   todoist_projects, todoist_tasks, env>>

ItemAdded(r) ==
    \/ ItemAddedGetMatter(r)
    \/ ItemAddedCheckExists(r)
    \/ ItemAddedCheckContentFingerprint(r)
    \/ ItemAddedCreateNotionTask(r)
    \/ ItemAddedStoreContentFingerprint(r)
    \/ ItemAddedLogTaskEvent(r)
    \/ ItemAddedMatterActivity(r)

\* ------------------------------------------------------------- environment

\* What the user types into the personal task manager.
UserTasks == {[content |-> <<"F","a">>, due_date |-> 6],
              [content |-> <<"g">>, due_date |-> None]}

AllFree == \A q \in Slots : Free(q)

\* The attorney approves a proposed task on the task board.
HumanApprove(p) ==
    /\ AllFree
    /\ tasks[p].status \in {"Proposed", "Needs Review"}
    /\ tasks' = [tasks EXCEPT ![p].status = "Approved"]
    /\ UNCHANGED <<email_receipts, task_events, cases, mappings, calendar_items,
                   matter_activity, todoist_projects, todoist_tasks, req, env, faults_left>>

\* The user adds a task to a project of the personal task manager.
UserAddsTodoistTask(project_id, t) ==
    /\ AllFree
    /\ Len(todoist_tasks) < MaxTodoistTasks
    /\ todoist_tasks' = Append(todoist_tasks,
                               TodoistTask(t.content, t.due_date, project_id, None))
    /\ UNCHANGED <<email_receipts, task_events, tasks, cases, mappings, calendar_items,
                   matter_activity, todoist_projects, req, env, faults_left>>

Tick ==
    /\ now < MaxNow
    /\ now' = now + 1
    /\ UNCHANGED <<stores, req, nreq, seen, faults_left, GOOGLE_API_KEY, status_call>>

Next ==
    \/ Tick
    \/ \E p \in Ids(tasks) : HumanApprove(p)
    \/ \E project_id \in Ids(todoist_projects) : \E t \in UserTasks :
           UserAddsTodoistTask(project_id, t)
    \/ \E r \in Slots : \E e \in Mailbox : DeliverEmail(r, e)
    \/ \E r \in Slots : \E p \in Ids(tasks) : \E embedded \in BOOLEAN :
           DeliverApproval(r, p, embedded)
    \/ \E r \in Slots : \E t \in Ids(todoist_tasks) : DeliverCompletion(r, t)
    \/ \E r \in Slots : \E t \in Ids(todoist_tasks) : DeliverItemAdded(r, t)
    \/ \E r \in Slots : Intake(r)
    \/ \E r \in Slots : Promotion(r)
    \/ \E r \in Slots : Completion(r)
    \/ \E r \in Slots : ItemAdded(r)

Spec == Init /\ [][Next]_vars

\* ------------------------------------------------- partial specifications

\* The intake handler alone.
NextIntake ==
    \/ Tick
    \/ \E r \in Slots : \E e \in Mailbox : DeliverEmail(r, e)
    \/ \E r \in Slots : Intake(r)

SpecIntake == Init /\ [][NextIntake]_vars

\* The intake handler with external calls that may fail.
InitFaults ==
    /\ Fresh
    /\ now = 0
    /\ faults_left = MaxFaults
    /\ status_call = NoCall

SpecFaults == InitFaults /\ [][NextIntake]_vars

\* The worker handling a request is killed between two external calls (the
\* server's worker timeout, a restart, the caller's disconnect): what the
\* request wrote stays, the rest of the handler never runs.
Abort(r) ==
    /\ ~Free(r)
    /\ req[r].kind = "intake"
    /\ Respond(r, req[r], "aborted")
    /\ UNCHANGED <<stores, env, faults_left>>

NextAbort ==
    \/ Tick
    \/ \E r \in Slots : \E e \in Mailbox : DeliverEmail(r, e)
    \/ \E r \in Slots : Intake(r)
    \/ \E r \in Slots : Abort(r)

SpecAbort == Init /\ [][NextAbort]_vars

\* The state Spec reaches when the first email was taken in, its task
\* approved and the approval event handled: matter "S" (made as a stub) is
\* mapped to the project "S" that the promotion created.
Fingerprint(e) ==
    compute_fingerprint(Emails[e].message_id, Emails[e].sender, Emails[e].received_at, 0)

MatterMapped ==
    /\ email_receipts = <<[fingerprint |-> Fingerprint(1), sender |-> Email1.sender,
                           received_at_utc |-> Email1.received_at]>>
    /\ task_events =
         <<AuditEvent("proposed", Fingerprint(1), 1, <<>>, None),
           AuditEvent("ContentFingerprint",
                      compute_task_content_fingerprint(TaskA.title, TaskA.due_date, 1),
                      1, <<>>, None)>>
    /\ tasks = <<TaskPage(TaskA, Fingerprint(1), 1, "Approved", ClaudeModel)>>
    /\ cases = <<StubMatter(Email1.body.index_number, Email1.body.caption)>>
    /\ mappings = <<[case |-> 1, todoist_project_id |-> 2, name |-> <<"S">>]>>
    /\ calendar_items = <<>>
    /\ matter_activity = <<>>
    /\ todoist_projects = <<[name |-> <<"I","n","b","o","x">>], [name |-> <<"S">>]>>
    /\ todoist_tasks = <<>>

\* Requests and events are counted from this state on.
InitMapped ==
    /\ MatterMapped
    /\ now = 0
    /\ req = [r \in Workers |-> IdleReq]
    /\ nreq = 0
    /\ seen = {}
    /\ faults_left = 0
    /\ GOOGLE_API_KEY = TRUE
    /\ status_call = NoCall

\* The two handlers of the personal task manager's webhook.
NextTodoist ==
    \/ Tick
    \/ \E project_id \in Ids(todoist_projects) : \E t \in UserTasks :
           UserAddsTodoistTask(project_id, t)
    \/ \E r \in Slots : \E t \in Ids(todoist_tasks) : DeliverCompletion(r, t)
    \/ \E r \in Slots : \E t \in Ids(todoist_tasks) : DeliverItemAdded(r, t)
    \/ \E r \in Slots : Completion(r)
    \/ \E r \in Slots : ItemAdded(r)

SpecTodoist == InitMapped /\ [][NextTodoist]_vars

\* The whole service with external calls that may fail.
SpecUnreliable == InitFaults /\ [][Next]_vars

\* Matter resolution: the intake handler on emails that name the same case,
\* every service answering.
NextMatters ==
    \/ \E r \in Slots : \E e \in 1..Len(Emails) : DeliverEmail(r, e)
    \/ \E r \in Slots : Intake(r)

SpecMatters == Init /\ [][NextMatters]_vars

\* determine_status on its own: the arguments and the time of the start are
\* drawn, the clock runs, and the function is applied once.
DueDates == {None, BadDate} \cup (1..MaxDue)
Confidences == {0, 79, 80, 100}

StatusCalls ==
    [task : [due_date : DueDates, confidence : Confidences],
     matter_id : {None, 1},
     has_attachment : BOOLEAN, attachment_processed : BOOLEAN,
     clock : {0}, result : {"none"}]

InitStatus ==
    /\ Fresh
    /\ now \in 0..MaxStart
    /\ faults_left = 0
    /\ status_call \in StatusCalls

ApplyDetermineStatus ==
    /\ status_call.result = "none"
    /\ status_call' =
         [status_call EXCEPT
            !.clock = now,
            !.result = determine_status(status_call.task, status_call.matter_id,
                                        status_call.has_attachment,
                                        status_call.attachment_processed, now)]
    /\ UNCHANGED <<now, stores, req, nreq, seen, faults_left, GOOGLE_API_KEY>>

NextStatus ==
    \/ Tick
    \/ ApplyDetermineStatus

SpecStatus == InitStatus /\ [][NextStatus]_vars

\* An external service accepts a request and never answers it.  The calls
\* made through requests.get/post/patch pass no timeout, so the call never
\* returns and the handler stays where it is; the two extraction calls go
\* through client libraries with their own limits.
Hang(r) ==
    /\ req[r].pc \notin {"idle", "done", "waiting",
                         "extract_with_gemini", "extract_tasks_with_claude"}
    /\ Goto(r, req[r], "waiting")
    /\ UNCHANGED <<stores, env, faults_left>>

NextHang ==
    \/ Next
    \/ \E r \in Slots : Hang(r)

\* A handler that can take a step does take it.
SpecHang ==
    /\ Init
    /\ [][NextHang]_vars
    /\ WF_vars(\E r \in Slots : Intake(r) \/ Promotion(r) \/ Completion(r) \/ ItemAdded(r))

\* Intake requests handled at the same time, one by each worker, every
\* service answering; their external calls interleave in any order.
NextConcurrent ==
    \/ \E r \in Workers : \E e \in Mailbox : DeliverEmailConcurrently(r, e)
    \/ \E r \in Workers : Intake(r)

SpecConcurrent == Init /\ [][NextConcurrent]_vars

\* Two emails about one case taken in at the same time, one by each worker,
\* and the attorney's approvals of their tasks promoted one after the other.
NextNamesakes ==
    \/ \E r \in Workers : \E e \in Mailbox : DeliverEmailConcurrently(r, e)
    \/ \E r \in Workers : Intake(r)
    \/ \E p \in Ids(tasks) : HumanApprove(p)
    \/ \E r \in Slots : \E p \in Ids(tasks) : \E embedded \in BOOLEAN :
           DeliverApproval(r, p, embedded)
    \/ \E r \in Slots : Promotion(r)

SpecNamesakes == Init /\ [][NextNamesakes]_vars

\* The intake handler while the clock runs, with an email whose receipt time
\* cannot be parsed among those delivered.
NextRetry ==
    \/ Tick
    \/ \E r \in Slots : \E e \in Mailbox \cup {Undated} : DeliverEmail(r, e)
    \/ \E r \in Slots : Intake(r)

SpecRetry == Init /\ [][NextRetry]_vars

\* compute_fingerprint on its own: two calls, their arguments drawn, the
\* clock running between them.
FingerprintArgs ==
    [message_id : {<<"m">>, <<"m","1">>},
     sender : {<<"a">>, <<"1","a">>},
     received_at : {[fmt |-> 4, ts |-> 1], [fmt |-> 1, ts |-> 1],
                    [fmt |-> 4, ts |-> 11], [fmt |-> 0, ts |-> 0]}]

InitFingerprint ==
    /\ Fresh
    /\ now = 0
    /\ faults_left = 0
    /\ status_call \in [calls : FingerprintArgs \X FingerprintArgs,
                         clocks : {<<>>}, digests : {<<>>}]

ApplyComputeFingerprint ==
    /\ Len(status_call.digests) < 2
    /\ LET c == status_call.calls[Len(status_call.digests) + 1]
       IN  status_call' =
               [status_call EXCEPT
                  !.clocks = Append(@, now),
                  !.digests = Append(@, compute_fingerprint(c.message_id, c.sender,
                                                            c.received_at, now))]
    /\ UNCHANGED <<now, stores, req, nreq, seen, faults_left, GOOGLE_API_KEY>>

NextFingerprint ==
    \/ Tick
    \/ ApplyComputeFingerprint

SpecFingerprint == InitFingerprint /\ [][NextFingerprint]_vars

\* normalize_task_title on its own: two titles are drawn and normalized one
\* after the other, and each result is normalized once more.
TitleAlphabet == {"A", "a", ".", " "}
Titles == UNION {[1..n -> TitleAlphabet] : n \in 0..MaxTitleLen}

InitTitles ==
    /\ Fresh
    /\ now = 0
    /\ faults_left = 0
    /\ status_call \in [titles : Titles \X Titles, normalized : {<<>>}, again : {<<>>}]

ApplyNormalizeTaskTitle ==
    /\ Len(status_call.normalized) < 2
    /\ LET title == status_call.titles[Len(status_call.normalized) + 1]
       IN  status_call' =
               [status_call EXCEPT
                  !.normalized = Append(@, normalize_task_title(title)),
                  !.again = Append(@, normalize_task_title(normalize_task_title(title)))]
    /\ UNCHANGED <<now, stores, req, nreq, seen, faults_left, GOOGLE_API_KEY>>

NextTitles == ApplyNormalizeTaskTitle

SpecTitles == InitTitles /\ [][NextTitles]_vars

\* ------------------------------------------------------------------ claims

\* The tasks one run of webhook() extracts from an email when every call
\* answers: those of each attachment that carries data, then the body's.
RECURSIVE AttachmentTasks(_, _)
AttachmentTasks(email, k) ==
    IF k > Len(email.attachments) THEN <<>>
    ELSE (IF email.attachments[k].data THEN email.attachments[k].result.tasks ELSE <<>>)
         \o AttachmentTasks(email, k + 1)

SingleDelivery(e) ==
    LET candidates == AttachmentTasks(Emails[e], 1) \o Emails[e].body.tasks
    IN  [k \in 1..Len(candidates) |-> <<candidates[k].title, candidates[k].due_date>>]

ReceiptsOf(fingerprint) ==
    {k \in Ids(email_receipts) : email_receipts[k].fingerprint = fingerprint}

\* The Task Records that carry a message fingerprint, in creation order
RecordsOf(fingerprint) ==
    LET mine == SelectSeq(tasks, LAMBDA t : t.message_fingerprint = fingerprint)
    IN  [k \in 1..Len(mine) |-> <<mine[k].title, mine[k].due_date>>]

InProgress(e) ==
    \E r \in Slots : ~Free(r) /\ req[r].kind = "intake" /\ req[r].email = e

\* C1: once an email has been delivered and no delivery of it is under way,
\* however many times it was delivered, the audit store holds exactly one
\* Email Receipt for its message fingerprint and the task board holds exactly
\* the Task Records of a single delivery.
IntakeIdempotent ==
    \A e \in 1..Len(Emails) :
        (<<"intake", e, FALSE>> \in seen /\ ~InProgress(e)) =>
            /\ Cardinality(ReceiptsOf(Fingerprint(e))) = 1
            /\ RecordsOf(Fingerprint(e)) = SingleDelivery(e)

\* C1, the case: the same email delivered three times and nothing else, the
\* last delivery answered "duplicate".
IntakeRedelivered ==
    \E r \in Slots :
        /\ req[r].kind = "intake" /\ req[r].pc = "done"
        /\ req[r].replay /\ req[r].status = "duplicate"
        /\ nreq = 3
        /\ seen = {<<"intake", req[r].email, FALSE>>}

ContentFingerprintOf(p) ==
    compute_task_content_fingerprint(tasks[p].title, tasks[p].due_date, tasks[p].matter)

\* C2: no two Task Records on the task board have the same content
\* fingerprint, whatever source created them.
ContentFingerprintUnique ==
    \A p, q \in Ids(tasks) :
        p # q => ContentFingerprintOf(p) # ContentFingerprintOf(q)

\* C3: when the approval event of an Approved Task Record without external
\* id has been handled, a task with the record's title exists in the
\* personal task manager and the record carries that task's id.
PromotionCreatesOneTask ==
    \A r \in Slots :
        (/\ req[r].kind = "promotion" /\ req[r].pc = "done"
         /\ req[r].props.status = "Approved"
         /\ req[r].props.todoist_task_id = None) =>
            \E t \in Ids(todoist_tasks) :
                /\ todoist_tasks[t].content = req[r].props.title
                /\ todoist_tasks[t].parent_id = None
                /\ tasks[req[r].page].todoist_task_id = t

NeverZero ==
    \A r \in Slots :
        (req[r].kind = "intake" /\ req[r].pc = "done" /\ req[r].status = "duplicate") =>
            \E p \in Ids(tasks) : tasks[p].message_fingerprint = req[r].fingerprint

\* C6: when a delivery of an email has run to completion, aborted
\* deliveries before it or not, the audit store holds one Email Receipt for
\* the email and the task board the Task Records of one un-aborted delivery.
AbortSafe ==
    \A r \in Slots :
        (req[r].kind = "intake" /\ req[r].pc = "done" /\ req[r].status # "aborted") =>
            /\ Cardinality(ReceiptsOf(req[r].fingerprint)) = 1
            /\ RecordsOf(req[r].fingerprint) = SingleDelivery(req[r].email)

\* C7: completion events delivered again append nothing: there is at most
\* one Completed audit event per external task id and at most one Completed
\* matter-activity note per Task Record.
CompletionReplayNoOp ==
    /\ \A t \in Ids(todoist_tasks) :
          Cardinality({k \in Ids(task_events) :
                          /\ task_events[k].event_type = "Completed"
                          /\ task_events[k].todoist_task_id = t}) <= 1
    /\ \A p \in Ids(tasks) :
          Cardinality({k \in Ids(matter_activity) :
                          /\ matter_activity[k].type = "Completed"
                          /\ matter_activity[k].related_task = p}) <= 1

NoRecord(todoist_task_id) ==
    \A p \in Ids(tasks) : tasks[p].todoist_task_id # todoist_task_id

\* C8: the handling of a completion event whose external task id matches no
\* Task Record changes no Task Record, matter or mapping, and ends, with the
\* outcome "orphan", by appending one CompletedOrphan audit event.
OrphanCompletion ==
    [][\A r \in Slots :
          (~Free(r) /\ req[r].kind = "completion" /\ NoRecord(req[r].todoist_task_id)) =>
              /\ UNCHANGED <<tasks, cases, mappings>>
              /\ IF req'[r].pc = "done"
                 THEN /\ req'[r].status = "orphan"
                      /\ task_events' =
                           Append(task_events,
                                  AuditEvent("CompletedOrphan", <<>>, None, <<>>,
                                             req[r].todoist_task_id))
                 ELSE task_events' = task_events]_vars

\* C8, the case: a completion event for an id no Task Record carries has
\* been handled.
OrphanRecorded ==
    \E r \in Slots :
        /\ req[r].kind = "completion" /\ req[r].pc = "done"
        /\ NoRecord(req[r].todoist_task_id)
        /\ req[r].status = "orphan"
        /\ task_events # <<>>
        /\ task_events[Len(task_events)].event_type = "CompletedOrphan"

Unmapped(project_id) ==
    \A k \in Ids(mappings) : mappings[k].todoist_project_id # project_id

\* C9: the handling of an item-added event whose project has no mapping adds
\* no Task Record, no content fingerprint, no audit event and no
\* matter-activity note, and ends with the outcome "ignored".
ReverseSyncIsolation ==
    [][\A r \in Slots :
          (~Free(r) /\ req[r].kind = "item_added" /\ Unmapped(req[r].project_id)) =>
              /\ UNCHANGED <<tasks, task_events, matter_activity>>
              /\ req'[r].pc = "done" => req'[r].status = "ignored"]_vars

\* C9, the case: an item added to an unmapped project has been handled
\* while another project is mapped.
UnmappedItemIgnored ==
    \E r \in Slots :
        /\ req[r].kind = "item_added" /\ req[r].pc = "done"
        /\ Unmapped(req[r].project_id)
        /\ mappings # <<>>
        /\ req[r].status = "ignored"

StatusLabels == {"Proposed", "Needs Review", "Approved", "Promoted", "Completed"}

\* C10: determine_status returns a defined status label for every
\* combination of arguments, and Needs Review whenever the due date is at
\* most three days after the time of the call.
StatusTotalForceReview ==
    status_call.result # "none" =>
        /\ status_call.result \in StatusLabels
        /\ (/\ status_call.task.due_date \notin {None, BadDate}
            /\ DaysUntilDue(status_call.task.due_date, status_call.clock)
                   <= ForceReviewDays) =>
               status_call.result = "Needs Review"

\* C10, the case: a confident task of a known matter, no attachment, due in
\* exactly three days, was given Needs Review.
ForceReviewAtThreeDays ==
    /\ status_call.result = "Needs Review"
    /\ status_call.task.confidence >= ConfidenceThreshold
    /\ status_call.matter_id # None
    /\ ~status_call.has_attachment
    /\ status_call.task.due_date \notin {None, BadDate}
    /\ DaysUntilDue(status_call.task.due_date, status_call.clock) = ForceReviewDays

\* C11: determine_status returns Proposed exactly when the due date is
\* absent or more than three days away, the email had no attachment or its
\* attachments were processed, a matter was resolved and the confidence is
\* at least 0.8; in every other case it returns Needs Review.
ProposedExactlyWhen ==
    status_call.result # "none" =>
        /\ status_call.result \in {"Proposed", "Needs Review"}
        /\ status_call.result = "Proposed" <=>
             /\ \/ status_call.task.due_date = None
                \/ /\ status_call.task.due_date # BadDate
                   /\ DaysUntilDue(status_call.task.due_date, status_call.clock)
                          > ForceReviewDays
             /\ ~status_call.has_attachment \/ status_call.attachment_processed
             /\ status_call.matter_id # None
             /\ status_call.task.confidence >= ConfidenceThreshold

\* C12: two emails with the same index number and the same non-empty
\* caption, taken in one after the other with every call answered, leave at
\* most one stub matter, and the second is resolved to the matter the first
\* created.
OneStubPerCase ==
    /\ \A a, b \in Ids(cases) :
           (cases[a].index_number = cases[b].index_number
            /\ cases[a].title = cases[b].title) => a = b
    /\ \A r \in Slots :
           (req[r].status = "processed" /\ req[r].caption # <<>>) =>
               \A k \in Ids(cases) :
                   (cases[k].index_number = req[r].index_number
                    /\ cases[k].title = req[r].caption) => req[r].matter_id = k

\* C13: each of the three idempotency checks (message fingerprint, content
\* fingerprint, promotion key) lets its caller go on to the side effect
\* whenever its query fails, and stops the caller only when the query was
\* answered and a matching row is in the audit store.
FailOpenGates ==
    [][\A r \in Slots :
         (/\ req[r].pc \in {"check_duplicate", "check_promotion_exists",
                            "check_task_content_fingerprint_exists"}
          /\ req'[r].pc # req[r].pc) =>
             /\ faults_left' < faults_left =>
                    req'[r].pc \in {"log_email_receipt", "create_todoist_task",
                                    "create_notion_task_from_todoist"}
             /\ req'[r].pc = "done" =>
                    /\ faults_left' = faults_left
                    /\ req[r].pc = "check_duplicate" =>
                           \E k \in Ids(email_receipts) :
                               email_receipts[k].fingerprint = req[r].fingerprint
                    /\ req[r].pc = "check_promotion_exists" =>
                           \E k \in Ids(task_events) :
                               /\ task_events[k].event_type = "Promoted"
                               /\ task_events[k].promotion_key = req[r].promotion_key
                    /\ req[r].pc = "check_task_content_fingerprint_exists" =>
                           \E k \in Ids(task_events) :
                               /\ task_events[k].event_type = "ContentFingerprint"
                               /\ task_events[k].fingerprint = req[r].content_fingerprint]_vars

\* C13, the case: the content-fingerprint query failed although a matching
\* row is stored, and the handler went on to create the record.
GateFailedOpen ==
    \E r \in Slots :
        /\ req[r].pc = "create_notion_task_from_todoist"
        /\ faults_left < MaxFaults
        /\ \E k \in Ids(task_events) :
               /\ task_events[k].event_type = "ContentFingerprint"
               /\ task_events[k].fingerprint = req[r].content_fingerprint

\* C14: for receipt times that one of the known formats parses, two calls
\* of compute_fingerprint with equal arguments give the same digest whatever
\* the times of the calls, and two calls that differ in exactly one of
\* reply-id, sender and receipt time (there, in the parsed timestamp) hash
\* different strings.
FingerprintDeterminism ==
    Len(status_call.digests) = 2 =>
        LET a == status_call.calls[1]
            b == status_call.calls[2]
            changed == {f \in {"message_id", "sender", "received_at"} : a[f] # b[f]}
        IN  (a.received_at.fmt # 0 /\ b.received_at.fmt # 0) =>
                /\ changed = {} => status_call.digests[1] = status_call.digests[2]
                /\ (/\ Cardinality(changed) = 1
                    /\ "received_at" \in changed => a.received_at.ts # b.received_at.ts)
                       => status_call.digests[1] # status_call.digests[2]

\* C14, the case: the same parseable arguments were fingerprinted at two
\* different times.
SameArgumentsTwoTimes ==
    /\ Len(status_call.digests) = 2
    /\ status_call.calls[1] = status_call.calls[2]
    /\ status_call.calls[1].received_at.fmt # 0
    /\ status_call.clocks[1] # status_call.clocks[2]

\* The title of the candidate that stands for a failed body extraction
Synthetic(title) ==
    /\ Len(title) >= Len(ExtractionFailedPrefix)
    /\ SubSeq(title, 1, Len(ExtractionFailedPrefix)) = ExtractionFailedPrefix

\* C15: when the extraction of the email body fails, the body contributes
\* exactly one candidate, of confidence 0, the request still ends
\* "processed", and the Task Record made from that candidate is Needs
\* Review whatever the matter and the attachments.
ExtractionFailureDegrades ==
    /\ \A r \in Slots :
           LET l == req[r]
               body == {k \in 1..Len(l.all_tasks) : l.all_tasks[k].source_model = ClaudeModel}
           IN  (\E k \in body : Synthetic(l.all_tasks[k].title)) =>
                   /\ Cardinality(body) = 1
                   /\ \A k \in body : l.all_tasks[k].confidence = 0
                   /\ l.pc = "done" => l.status = "processed"
    /\ \A p \in Ids(tasks) : Synthetic(tasks[p].title) => tasks[p].status = "Needs Review"

\* C15, the case: the body extraction failed for an email whose attachment
\* was processed and whose matter was resolved, and the request ended with
\* the synthetic candidate on the task board.
SyntheticWithMatter ==
    \E r \in Slots : \E p \in Ids(tasks) :
        /\ req[r].pc = "done"
        /\ req[r].status = "processed"
        /\ req[r].attachment_processed
        /\ Synthetic(tasks[p].title)
        /\ tasks[p].message_fingerprint = req[r].fingerprint
        /\ tasks[p].matter # None

\* C16: in each of the four protocols a step in which an external call
\* fails does not end the handler in an error outcome: the side effect is
\* skipped and the handler goes on.
FailureNeverFatal ==
    [][faults_left' < faults_left => \A r \in Slots : req'[r].status # "error"]_vars

\* C17: two emails with different message fingerprints handled at the same
\* time leave what handling them one after the other leaves; in particular
\* two emails that name the same case, not yet on the board, leave one stub
\* matter, to which the records of both are linked.
ConcurrentIndependence ==
    (/\ \A r \in Workers : req[r].pc = "done"
     /\ req[1].fingerprint # req[2].fingerprint) =>
        /\ \A a, b \in Ids(cases) :
               cases[a].index_number = cases[b].index_number => a = b
        /\ \A p, q \in Ids(tasks) : tasks[p].matter = tasks[q].matter

\* C18: when the same email is delivered to two workers at the same time
\* and both pass the message-fingerprint gate (neither is answered
\* "duplicate"), both log an Email Receipt and both create the Task
\* Records: the final state holds every record twice.
SameIdentityRace ==
    \A e \in Mailbox :
        (\A r \in Workers : /\ req[r].pc = "done"
                            /\ req[r].email = e
                            /\ req[r].status = "processed") =>
            /\ Cardinality(ReceiptsOf(Fingerprint(e))) = 2
            /\ Len(RecordsOf(Fingerprint(e))) = 2 * Len(SingleDelivery(e))

\* C18, the case: the interleaving exists.  Both deliveries of the first
\* email were processed, and the board holds its task twice.
DuplicatesAfterRace ==
    /\ \A r \in Workers : /\ req[r].pc = "done"
                          /\ req[r].email = 1
                          /\ req[r].status = "processed"
    /\ Cardinality(ReceiptsOf(Fingerprint(1))) = 2
    /\ Len(RecordsOf(Fingerprint(1))) = 2
    /\ Len(SingleDelivery(1)) = 1

\* C19: every invocation of a handler eventually returns a response, even
\* when an external service never answers a request.
HandlersTerminate == \A r \in Slots : (req[r].pc # "idle") ~> (req[r].pc = "done")

\* C20: whatever promotion events were handled, one at a time, and whichever
\* of their external calls failed, the mappings database holds at most one
\* Project Mapping Record for each matter.
OneMappingPerMatter ==
    \A a, b \in Ids(mappings) : mappings[a].case = mappings[b].case => a = b

\* C21: the audit store is append-only and Task Records are never deleted:
\* in every step each Email Receipt and each audit event of the state
\* before is still there, unchanged, and so is the row of every Task Record.
AuditAppendOnly ==
    [][/\ Len(email_receipts') >= Len(email_receipts)
       /\ \A k \in Ids(email_receipts) : email_receipts'[k] = email_receipts[k]
       /\ Len(task_events') >= Len(task_events)
       /\ \A k \in Ids(task_events) : task_events'[k] = task_events[k]
       /\ Len(tasks') >= Len(tasks)]_vars

\* C21, the case: handlers of every kind have written (receipt, task
\* events, a completion) and a Task Record was updated to Completed.
AuditAfterCompletion ==
    /\ email_receipts # <<>>
    /\ \E p \in Ids(tasks) : tasks[p].status = "Completed"
    /\ \E k \in Ids(task_events) : task_events[k].event_type = "ContentFingerprint"
    /\ \E k \in Ids(task_events) : task_events[k].event_type = "proposed"
    /\ Len(task_events) >= 4

\* C22: the step in which intake answers "duplicate" is the step of the
\* message-fingerprint gate, the first external call of the request (no
\* extraction was called), and it writes nothing: receipts, matters, Task
\* Records, calendar items and audit events are what they were.
DuplicateWritesNothing ==
    [][\A r \in Slots :
         (/\ req'[r].kind = "intake"
          /\ req'[r].status = "duplicate"
          /\ req[r].status # "duplicate") =>
             /\ req[r].pc = "check_duplicate"
             /\ req'[r].all_tasks = <<>> /\ req'[r].all_calendar_items = <<>>
             /\ ~req'[r].attachment_processed
             /\ stores' = stores]_vars

\* C22, the case: the second email, which has an attachment, was delivered
\* again and answered "duplicate".
DuplicateAnswered ==
    \E r \in Slots :
        /\ req[r].kind = "intake"
        /\ req[r].email = 2
        /\ req[r].status = "duplicate"
        /\ Cardinality(ReceiptsOf(Fingerprint(2))) = 1

\* C23: a Task Record's status changes only from Proposed or Needs Review
\* to Approved, from Approved to Promoted (its external task created), and
\* from Promoted to Completed; nothing changes the status of a Completed
\* record.
LifecycleOrder ==
    [][\A p \in Ids(tasks) :
         tasks'[p].status # tasks[p].status =>
             \/ /\ tasks[p].status \in {"Proposed", "Needs Review"}
                /\ tasks'[p].status = "Approved"
             \/ /\ tasks[p].status = "Approved"
                /\ tasks'[p].status = "Promoted"
                /\ tasks'[p].todoist_task_id # None
             \/ /\ tasks[p].status = "Promoted"
                /\ tasks'[p].status = "Completed"]_vars

\* C23 as amended: the same order, and a record that reverse sync created
\* (Approved, with its external task id) goes from Approved to Completed.
LifecycleOrderWithReverseSync ==
    [][\A p \in Ids(tasks) :
         tasks'[p].status # tasks[p].status =>
             \/ /\ tasks[p].status \in {"Proposed", "Needs Review"}
                /\ tasks'[p].status = "Approved"
             \/ /\ tasks[p].status = "Approved"
                /\ tasks'[p].status = "Promoted"
                /\ tasks'[p].todoist_task_id # None
             \/ /\ tasks[p].status = "Promoted"
                /\ tasks'[p].status = "Completed"
             \/ /\ tasks[p].status = "Approved"
                /\ tasks[p].llm_model = ManualModel
                /\ tasks[p].todoist_task_id # None
                /\ tasks'[p].status = "Completed"]_vars

\* C23, the case: a record made by reverse sync was completed, next to a
\* record made by intake that was approved.
ReverseSyncRecordCompleted ==
    /\ \E p \in Ids(tasks) : /\ tasks[p].status = "Completed"
                             /\ tasks[p].llm_model = ManualModel
    /\ \E p \in Ids(tasks) : /\ tasks[p].status = "Approved"
                             /\ tasks[p].llm_model = ClaudeModel

\* C24: when an email has attachments and one of them was not processed
\* by the document extraction (here: it carries no data), every Task Record
\* of that intake run is Needs Review.
UnprocessedAttachmentForcesReview ==
    \A e \in 1..Len(Emails) :
        (\E a \in 1..Len(Emails[e].attachments) : ~Emails[e].attachments[a].data) =>
            \A p \in Ids(tasks) :
                tasks[p].message_fingerprint = Fingerprint(e) =>
                    tasks[p].status = "Needs Review"

\* C25: a calendar item that intake creates is Needs Review when its event
\* date is within 3 days of now or when the email had attachments and none
\* was processed, as determine_status decides for a task.
CalendarItemForcedToReview ==
    [][\A r \in Workers :
          (/\ req[r].pc = "create_notion_calendar_item"
           /\ Len(calendar_items') = Len(calendar_items) + 1)
          => LET l == req[r]
                 item == calendar_items'[Len(calendar_items')]
             IN  (\/ ForceReview(item.event_date, now)
                  \/ (Emails[l.email].attachments # <<>> /\ ~l.attachment_processed))
                 => item.status = "Needs Review"]_vars

\* C26: in an intake run whose matter resolution ended with no matter id,
\* every Task Record and every calendar item the run creates has status
\* Needs Review.
NoSilentOrphan ==
    [][\A r \in Workers :
          (req[r].kind = "intake" /\ req[r].matter_id = None)
          => /\ (/\ req[r].pc = "create_notion_task"
                 /\ Len(tasks') = Len(tasks) + 1)
                => tasks'[Len(tasks')].status = "Needs Review"
             /\ (/\ req[r].pc = "create_notion_calendar_item"
                 /\ Len(calendar_items') = Len(calendar_items) + 1)
                => calendar_items'[Len(calendar_items')].status = "Needs Review"]_vars

\* A run without a matter has filed a Task Record and a calendar item.
OrphansFiled ==
    /\ \E p \in Ids(tasks) : /\ tasks[p].matter = None
                             /\ tasks[p].message_fingerprint # <<>>
                             /\ tasks[p].status = "Needs Review"
    /\ \E c \in Ids(calendar_items) : /\ calendar_items[c].case = None
                                      /\ calendar_items[c].status = "Needs Review"

\* The steps of webhook() that belong to matter resolution, with the
\* extraction step that ends by deciding where resolution starts.
ResolutionSteps ==
    {"extract_tasks_with_claude", "find_matter_by_case_name",
     "find_matter_by_index_number", "search_case_by_index",
     "recheck_find_matter_by_index_number", "recheck_search_case_by_index",
     "create_stub_matter"}

\* C27: when a run leaves matter resolution its matter is the first hit in
\* the order case name equal, case name contained, index number; a stub is
\* created only when all three miss and a caption exists, and with an index
\* number the create follows the re-check; with no caption no stub is
\* created and the matter is None when the index number is absent or
\* unmatched.
MatterResolutionOrder ==
    [][\A r \in Workers :
          /\ (req[r].pc \in ResolutionSteps /\ req'[r].pc \notin ResolutionSteps)
             => LET l == req'[r]
                    name == Strip(l.case_name)
                    exact == IF l.case_name = <<>> THEN {}
                             ELSE {k \in Ids(cases) : cases[k].case_name = name}
                    substring == IF l.case_name = <<>> THEN {}
                                 ELSE {k \in Ids(cases) : Contains(cases[k].case_name, name)}
                    by_index == IF l.index_number = <<>> THEN {}
                                ELSE {k \in Ids(cases) :
                                         \/ Contains(cases[k].index_number,
                                                     Strip(l.index_number))
                                         \/ cases[k].index_number = l.index_number}
                IN  IF exact # {} THEN l.matter_id \in exact /\ cases' = cases
                    ELSE IF substring # {} THEN l.matter_id \in substring /\ cases' = cases
                    ELSE IF by_index # {} THEN l.matter_id \in by_index /\ cases' = cases
                    ELSE IF l.caption # <<>>
                    THEN /\ req[r].pc = "create_stub_matter"
                         /\ Len(cases') = Len(cases) + 1
                         /\ l.matter_id = Len(cases')
                    ELSE l.matter_id = None /\ cases' = cases
          /\ (/\ req[r].pc # "create_stub_matter"
              /\ req'[r].pc = "create_stub_matter"
              /\ req'[r].index_number # <<>>)
             => req[r].pc = "recheck_search_case_by_index"]_vars

\* A run was resolved by its case name while another matter holds its index
\* number.
ResolvedByNameBeforeIndex ==
    \E r \in Workers :
        /\ req[r].pc = "done" /\ req[r].kind = "intake"
        /\ req[r].matter_id # None
        /\ cases[req[r].matter_id].case_name = req[r].case_name
        /\ \E k \in Ids(cases) : /\ k # req[r].matter_id
                                 /\ req[r].index_number # <<>>
                                 /\ cases[k].index_number = req[r].index_number

\* C28: when a run has an index number and a matter with that index number
\* exists, the run's matter is such a matter, whatever the case-name lookups
\* answer.
IndexNumberAuthoritative ==
    [][\A r \in Workers :
          (req[r].pc \in ResolutionSteps /\ req'[r].pc \notin ResolutionSteps)
          => LET l == req'[r]
                 holders == {k \in Ids(cases) : cases[k].index_number = l.index_number}
             IN  (l.index_number # <<>> /\ holders # {}) => l.matter_id \in holders]_vars

\* C29: when promotion_webhook reads a status other than Approved for the
\* Task Record (on the fetched page, or in the properties the event
\* carries), the request ends on that step with the answer skipped, and
\* from its arrival to its answer no store is written: no project, mapping,
\* external task, record or audit event changes.
PromotionIgnoredUnlessApproved ==
    [][\A r \in Workers :
          /\ (/\ req'[r] # req[r]
              /\ req'[r].kind = "promotion"
              /\ req'[r].props.status \notin {"Approved", "none"})
             => /\ req[r].pc \in {"idle", "done", "fetch_page"}
                /\ req'[r].pc = "done"
                /\ req'[r].status = "skipped"
                /\ req'[r].reason = "not_approved"
                /\ UNCHANGED stores
          /\ (req'[r].kind = "promotion" /\ req'[r].pc = "fetch_page")
             => UNCHANGED stores]_vars

\* An approval event for a record that is not Approved was answered.
UnapprovedSkipped ==
    \E r \in Workers :
        /\ req[r].kind = "promotion" /\ req[r].pc = "done"
        /\ req[r].status = "skipped" /\ req[r].reason = "not_approved"
        /\ tasks[req[r].page].status \in {"Proposed", "Needs Review"}

\* C30: when promotion_webhook reads an Approved Task Record that stores an
\* external task id, the request ends on that step with the answer skipped
\* and no store is written; and no step of an approval request for a record
\* that reverse sync created adds a task to the personal task manager.
StoredExternalIdNeverPromoted ==
    [][\A r \in Workers :
          /\ (/\ req'[r] # req[r]
              /\ req'[r].kind = "promotion"
              /\ req'[r].props.status = "Approved"
              /\ req'[r].props.todoist_task_id # None)
             => /\ req[r].pc \in {"idle", "done", "fetch_page"}
                /\ req'[r].pc = "done"
                /\ req'[r].status = "skipped"
                /\ req'[r].reason = "already_promoted"
                /\ UNCHANGED stores
          /\ (/\ req'[r] # req[r]
              /\ req'[r].kind = "promotion"
              /\ tasks[req'[r].page].llm_model = ManualModel)
             => todoist_tasks' = todoist_tasks]_vars

\* An approval event for a record that reverse sync created was answered.
ReverseSyncRecordSkipped ==
    \E r \in Workers :
        /\ req[r].kind = "promotion" /\ req[r].pc = "done"
        /\ req[r].status = "skipped" /\ req[r].reason = "already_promoted"
        /\ tasks[req[r].page].llm_model = ManualModel
        /\ tasks[req[r].page].todoist_task_id # None

\* The audit events of one type that point at a Task Record.
EventsAbout(event_type, notion_page_id) ==
    {k \in Ids(task_events) : /\ task_events[k].event_type = event_type
                              /\ task_events[k].notion_row_id = notion_page_id}

\* C31: an item-added request, every call answering, ends in one of four
\* ways.  It is ignored only for an unmapped project, answered exists only
\* when a Task Record carries the item's id, answered duplicate only when a
\* ContentFingerprint event for its content exists; otherwise it is synced,
\* and then exactly one Task Record carries the item's id, with status
\* Approved, the item's title and due date and the mapped matter, and the
\* audit log holds exactly one ContentFingerprint event for the content and
\* one reverse_sync event for the record, appended in that order after the
\* record was created.
ReverseSyncOfNewItem ==
    \A r \in Slots :
        LET l == req[r]
            t == l.todoist_task_id
            carriers == {p \in Ids(tasks) : tasks[p].todoist_task_id = t}
            mapped == {mappings[m].case :
                         m \in {k \in Ids(mappings) :
                                  mappings[k].todoist_project_id = l.project_id}}
            content == compute_task_content_fingerprint(todoist_tasks[t].content,
                                                        todoist_tasks[t].due_date,
                                                        l.matter_id)
            recorded == {k \in Ids(task_events) :
                            /\ task_events[k].event_type = "ContentFingerprint"
                            /\ task_events[k].fingerprint = content}
        IN  l.kind = "item_added" =>
              /\ l.pc = "done" =>
                    /\ l.status \in {"ignored", "exists", "duplicate", "synced"}
                    /\ l.status = "ignored" => mapped = {}
                    /\ l.status = "exists" => carriers # {}
                    /\ l.status = "duplicate" => recorded # {}
                    /\ l.status = "synced" =>
                          /\ carriers = {l.notion_id}
                          /\ tasks[l.notion_id].status = "Approved"
                          /\ tasks[l.notion_id].title = todoist_tasks[t].content
                          /\ tasks[l.notion_id].due_date = todoist_tasks[t].due_date
                          /\ tasks[l.notion_id].matter \in mapped
                          /\ recorded = EventsAbout("ContentFingerprint", l.notion_id)
                          /\ Cardinality(recorded) = 1
                          /\ Cardinality(EventsAbout("reverse_sync", l.notion_id)) = 1
                          /\ \A a \in recorded :
                                 \A b \in EventsAbout("reverse_sync", l.notion_id) : a < b
              /\ l.pc = "item_added_store_content_fingerprint" =>
                    /\ carriers = {l.notion_id}
                    /\ recorded = {}
              /\ l.pc = "item_added_log_task_event" =>
                    /\ Cardinality(recorded) = 1
                    /\ EventsAbout("reverse_sync", l.notion_id) = {}

\* An item added by the user to the mapped project was synced.
NewItemSynced ==
    \E r \in Slots :
        /\ req[r].kind = "item_added" /\ req[r].pc = "done"
        /\ req[r].status = "synced"
        /\ tasks[req[r].notion_id].todoist_task_id = req[r].todoist_task_id

\* The matters that the Project Mapping Records give for a project.
MappedMatters(project_id) ==
    {mappings[m].case :
        m \in {k \in Ids(mappings) : mappings[k].todoist_project_id = project_id}}

\* A ContentFingerprint event for the item's content and a matter of its
\* project was in the audit log when request r arrived: it is not about the
\* record that r created.
ContentKnown(r) ==
    LET t == req'[r].todoist_task_id IN
    \E m \in MappedMatters(todoist_tasks[t].project_id) :
        \E k \in Ids(task_events) :
            /\ task_events[k].event_type = "ContentFingerprint"
            /\ task_events[k].fingerprint =
                   compute_task_content_fingerprint(todoist_tasks[t].content,
                                                    todoist_tasks[t].due_date, m)
            /\ task_events[k].notion_row_id # req[r].notion_id

ItemAddedStep(r) == req'[r] # req[r] /\ req'[r].kind = "item_added"

\* C32, as stated: an item-added request whose content is already recorded
\* for the matter of its project writes no Task Record and no audit event,
\* and is answered duplicate.
CrossSourceDedup ==
    [][\A r \in Slots :
          (ItemAddedStep(r) /\ ContentKnown(r))
          => /\ tasks' = tasks
             /\ task_events' = task_events
             /\ req'[r].pc = "done" => req'[r].status = "duplicate"]_vars

\* C32, amended: such a request writes no Task Record and no audit event;
\* it is answered exists when a Task Record carries the item's id, and
\* duplicate otherwise.
CrossSourceDedupOrExists ==
    [][\A r \in Slots :
          (ItemAddedStep(r) /\ ContentKnown(r))
          => /\ tasks' = tasks
             /\ task_events' = task_events
             /\ req'[r].pc = "done" =>
                   req'[r].status =
                       IF \E p \in Ids(tasks) :
                              tasks[p].todoist_task_id = req'[r].todoist_task_id
                       THEN "exists" ELSE "duplicate"]_vars

\* An item whose content intake had recorded was answered duplicate.
IntakeContentAnsweredDuplicate ==
    \E r \in Slots :
        /\ req[r].kind = "item_added" /\ req[r].pc = "done"
        /\ req[r].status = "duplicate"
        /\ \E k \in Ids(task_events) :
               /\ task_events[k].event_type = "ContentFingerprint"
               /\ task_events[k].fingerprint = req[r].content_fingerprint
               /\ tasks[task_events[k].notion_row_id].llm_model # ManualModel

RecordingEvents == {"ContentFingerprint", "proposed", "reverse_sync", "Promoted", "Completed"}

\* Every audit event a step appends that records a create or an update
\* points at a Task Record that was on the board before the step, created
\* or updated as the event says.
AppendedAfterSuccess ==
    \A k \in (Len(task_events) + 1)..Len(task_events') :
        LET event == task_events'[k]
            page == event.notion_row_id
        IN  event.event_type \in RecordingEvents =>
              /\ page \in Ids(tasks)
              /\ event.event_type = "ContentFingerprint" =>
                     event.fingerprint = ContentFingerprintOf(page)
              /\ event.event_type = "proposed" =>
                     event.fingerprint = tasks[page].message_fingerprint
              /\ event.event_type = "reverse_sync" => tasks[page].llm_model = ManualModel
              /\ event.event_type = "Promoted" => tasks[page].todoist_task_id # None
              /\ event.event_type = "Completed" => tasks[page].status = "Completed"

\* No finished request was stopped by a gate for an item whose create never
\* succeeded.
ReplayNotBlocked ==
    \A r \in Slots :
        req[r].pc = "done" =>
          /\ (req[r].kind = "intake" /\ req[r].status = "duplicate") =>
                 RecordsOf(req[r].fingerprint) # <<>>
          /\ (req[r].kind = "item_added" /\ req[r].status = "duplicate") =>
                 \E k \in Ids(task_events) :
                     /\ task_events[k].event_type = "ContentFingerprint"
                     /\ task_events[k].fingerprint = req[r].content_fingerprint
                     /\ task_events[k].notion_row_id \in Ids(tasks)
          /\ (req[r].kind = "item_added" /\ req[r].status = "exists") =>
                 ~NoRecord(req[r].todoist_task_id)

\* C33: an audit event that records a create or an update is appended only
\* after that create or update succeeded, and a replay is never stopped by a
\* gate for an item whose create failed.
AuditFollowsSuccess == [][AppendedAfterSuccess]_vars /\ []ReplayNotBlocked

\* C33, the first half alone.
AuditAppendedAfterSuccess == [][AppendedAfterSuccess]_vars

\* The fingerprint of the undated email when it arrives at a given second.
UndatedFingerprint(clock) ==
    Emails[Undated].message_id \o Emails[Undated].sender \o DecStr(clock)

\* C34: the fingerprint of an email whose receipt time cannot be parsed is
\* made from the second of its arrival, so deliveries in different seconds
\* have different fingerprints; and each such fingerprint is processed as a
\* new email: once a delivery has been answered, the task board holds the
\* Task Records of one delivery under the fingerprint of its second.
UnparseableTimeIsFirstOccurrence ==
    /\ [][\A r \in Slots :
            (req'[r].pc = "check_duplicate" /\ req[r].pc # "check_duplicate"
             /\ req'[r].email = Undated)
            => /\ req'[r].fingerprint = UndatedFingerprint(now)
               /\ \A c \in 0..MaxNow :
                      c # now => req'[r].fingerprint # UndatedFingerprint(c)]_vars
    /\ [](\A r \in Slots :
            (req[r].pc = "done" /\ req[r].kind = "intake" /\ req[r].email = Undated)
            => /\ Cardinality(ReceiptsOf(req[r].fingerprint)) = 1
               /\ RecordsOf(req[r].fingerprint) = SingleDelivery(Undated))

\* The undated email was delivered in two different seconds and processed
\* both times.
UndatedProcessedTwice ==
    \A c \in 0..1 :
        /\ ReceiptsOf(UndatedFingerprint(c)) # {}
        /\ RecordsOf(UndatedFingerprint(c)) = SingleDelivery(Undated)

\* What is left of a title when letter case, punctuation and the length of
\* whitespace runs are set aside: its words, in lower case, without the
\* characters that are neither letters, digits nor whitespace.
RECURSIVE WordsOf(_, _)
WordsOf(s, word) ==
    IF s = <<>> THEN (IF word = <<>> THEN <<>> ELSE <<word>>)
    ELSE IF IsSpace(Head(s))
         THEN (IF word = <<>> THEN <<>> ELSE <<word>>) \o WordsOf(Tail(s), <<>>)
         ELSE IF IsAlnum(Head(s)) THEN WordsOf(Tail(s), Append(word, LowerChar(Head(s))))
              ELSE WordsOf(Tail(s), word)

\* C35: two titles with the same words normalize to the same string, and
\* normalizing a normalized title changes nothing.
TitleVariationsCollapse ==
    Len(status_call.normalized) = 2 =>
        /\ WordsOf(status_call.titles[1], <<>>) = WordsOf(status_call.titles[2], <<>>)
               => status_call.normalized[1] = status_call.normalized[2]
        /\ \A k \in 1..2 : status_call.again[k] = status_call.normalized[k]

\* C36: two calls of compute_fingerprint with parseable receipt times whose
\* triples (reply-id, sender, parsed timestamp) differ hash different
\* strings.
FingerprintEncodingInjective ==
    Len(status_call.digests) = 2 =>
        LET a == status_call.calls[1]
            b == status_call.calls[2]
        IN  (/\ ParsesReceivedAt(a.received_at)
             /\ ParsesReceivedAt(b.received_at)
             /\ <<a.message_id, a.sender, a.received_at.ts>>
                    # <<b.message_id, b.sender, b.received_at.ts>>)
            => status_call.digests[1] # status_call.digests[2]

\* C37: a CompletedOrphan audit event is appended for an external task id
\* only when no Task Record carries that id.
OrphanOnlyWhenUnknown ==
    [][\A k \in (Len(task_events) + 1)..Len(task_events') :
          task_events'[k].event_type = "CompletedOrphan"
          => NoRecord(task_events'[k].todoist_task_id)]_vars

\* C39: no external project id appears in the Project Mapping Records of two
\* different matters, also when two matters have the same case name.
OneMatterPerProject ==
    \A a, b \in Ids(mappings) :
        mappings[a].todoist_project_id = mappings[b].todoist_project_id
        => mappings[a].case = mappings[b].case

\* The calendar days from the date of the call to the due date
CalendarDaysAhead(due_date, clock) == due_date - (clock \div SecondsPerDay)

\* The call leaves the decision to the rules after the deadline test
OtherwiseProposed ==
    /\ ~status_call.has_attachment \/ status_call.attachment_processed
    /\ status_call.matter_id # None
    /\ status_call.task.confidence >= ConfidenceThreshold

\* C40: a task due four or more calendar days after the date of the call is
\* not force-reviewed at any time of day, and a task due three or fewer
\* calendar days after it, or in the past, always is.
ForceReviewBoundary ==
    (status_call.result # "none" /\ status_call.task.due_date \notin {None, BadDate}) =>
        LET ahead == CalendarDaysAhead(status_call.task.due_date, status_call.clock)
        IN  /\ (ahead > ForceReviewDays /\ OtherwiseProposed)
                   => status_call.result = "Proposed"
            /\ ahead <= ForceReviewDays => status_call.result = "Needs Review"

\* C40, the part that holds: a task due three or fewer calendar days after
\* the date of the call, or in the past, is given Needs Review at every time
\* of day.
ForceReviewWithinThreeDays ==
    (status_call.result # "none" /\ status_call.task.due_date \notin {None, BadDate}) =>
        (CalendarDaysAhead(status_call.task.due_date, status_call.clock) <= ForceReviewDays
         => status_call.result = "Needs Review")

====
